---------------------------- MODULE Spec2Model ----------------------------
(***************************************************************************)
(* A model of the WiFi radar suite's scan pipeline:                        *)
(*   - DistanceCalculationEngine (distance_engine.py), in fixed point;     *)
(*   - WiFiService (api/services/wifi_service.py): scan_wifi, the iw and   *)
(*     iwlist parsers, the security classifier, the record builder;        *)
(*   - the legacy scanner (legacy-desktop/wifi_radar_nav_enhanced.py).     *)
(*                                                                         *)
(* Text is modelled character by character: a string is a sequence of      *)
(* one-character strings, so that strip, split, substring search and the   *)
(* regular expressions of the parsers are computed, not assumed.           *)
(*                                                                         *)
(* Floating point is modelled in fixed point: decibels in thousandths of   *)
(* a dB, base-10 exponents in thousandths of a decade, distances in        *)
(* centimetres.  A distance of BigCm or more is kept as BigCm ("finite     *)
(* but huge"); a float overflow is an OverflowError, as in Python.         *)
(***************************************************************************)
EXTENDS Integers, Sequences, FiniteSets, TLC

VARIABLES
    \* DistanceCalculationEngine.calculate_distance
    signal_dbm,        \* argument signal_dbm (whole dBm)
    frequency_mhz,     \* argument frequency_mhz
    params,            \* self.params["environmental_factors"]["indoor"]
    signal_ranges,     \* config_manager.signal_ranges, in insertion order
    freq_corrections,  \* self.freq_corrections, in insertion order
    distance,          \* what the call returned: NotCalled, a value, or a raise
    \* WiFiService._determine_security_type
    sec_input,         \* argument security_info: the collected lines
    sec_output,        \* the SecurityType returned, "" before the call
    \* the parsers, called on their own
    dialect,           \* which parser: "iw", "iwlist", "legacy_iw", "legacy_iwlist"
    raw_text,          \* argument output
    parsed,            \* what the parser returned, NotParsed before the call
    \* scan_wifi, of WiFiService and of the legacy module
    impl,              \* "service" or "legacy"
    scan_pc,           \* where the scan is: "start", "iw", "iwlist", "done"
    interface,         \* argument interface
    available_interfaces, \* WiFiService._available_interfaces
    iw_run,            \* how the primary command ended, NotRun before it ran
    iwlist_run,        \* how the secondary command ended, NotRun before it ran
    commands,          \* the scan commands run so far, in order
    scan_result,       \* what scan_wifi returned, NoResult before it returned
    \* WiFiService._frequency_to_channel
    chan_frequency,    \* argument frequency
    chan_channel,      \* the channel returned: 0 for None, -1 before the call
    \* SecurityAnalysisEngine.analyze_access_point and the legacy AccessPoint
    analyzer,          \* "engine" (security_engine.py) or "legacy" (AccessPoint dataclass)
    ap_ssid,           \* argument ssid
    ap_bssid,          \* argument bssid
    ap_security,       \* argument security
    ap_signal,         \* argument signal_dbm (whole dBm)
    ap_frequency,      \* argument frequency (MHz)
    ap_channel,        \* AccessPoint.channel (legacy)
    security_profiles, \* ConfigurationManager.security_profiles
    loaded_ranges,     \* ConfigurationManager.signal_ranges as the engine's manager loaded them
    threat_levels,     \* the threat_levels table of the configuration, in its own order
    bssid_hash,        \* hash(bssid without colons) % 360 in this process
    analysis,          \* the SecurityAnalysisResult returned, or the exception raised
    built,             \* the AccessPoint objects built so far from the same network
    \* ConfigurationManager.get_threat_level_for_score, called for two scores
    level_table,       \* the threat_levels table in force, in its own order
    score_lo,          \* the lower score
    score_hi,          \* the higher score
    level_lo,          \* the (level, color) returned for score_lo, "" before the call
    level_hi,          \* the (level, color) returned for score_hi, "" before the call
    \* ConfigurationManager under reload_configuration, and a thread that reads it
    config_file,       \* what the configuration file holds now
    old_file,          \* what it held when the manager was constructed
    mgr_config,        \* ConfigurationManager.config
    mgr_profiles,      \* ConfigurationManager.security_profiles, in insertion order
    mgr_ranges,        \* ConfigurationManager.signal_ranges, in insertion order
    mgr_modes,         \* ConfigurationManager.visualization_modes, in insertion order
    reload_pc,         \* "idle", "running" or "returned"
    reload_todo,       \* the dictionary assignments reload_configuration has still to make
    reader_security,   \* the security type the reading thread analyses
    reader_signal,     \* the signal strength it analyses (dBm)
    reader_profile,    \* what its get_security_profile returned
    reader_range,      \* what its get_signal_range_info returned
    \* the scan API: routers/scanner.py over the shared wifi_service
    active_scans,        \* the registry: the status of each scan id, "absent" before it is registered
    service_interfaces,  \* wifi_service._available_interfaces, shared by every request
    plugged,             \* the wireless interfaces on the machine at this moment
    handler,             \* the request handler the event loop is running
    cancel_waiting,      \* cancel requests that reached the server and wait for the event loop
    cancelled_active,    \* scans whose cancel request was sent while they were starting or running
    scan_answer,         \* what start_scan answered for each scan: status code and number of access points
    last_answer,           \* the last answer of cancel_scan, get_scan_status or get_active_scans
    \* the legacy background scanner: WiFiScanner beside the window's thread
    scanner_running,   \* WiFiScanner._running
    thread_pc,         \* where run is: "not_started", "check", "scanning", "sleeping" or "finished"
    stop_pc,           \* where stop_scanning is: "idle", "waiting" or "returned"
    scan_left,         \* seconds until the scan command of this cycle is back
    sleep_left,        \* seconds until time.sleep(interval) is over
    wait_left,         \* seconds until wait(2000) gives up
    cycles,            \* scan cycles started
    late_cycle,        \* a scan cycle started after stop_scanning returned
    late_signals       \* the signals emitted after stop_scanning returned

distVars == <<signal_dbm, frequency_mhz, params, signal_ranges, freq_corrections, distance>>

classVars == <<sec_input, sec_output>>

parseVars == <<dialect, raw_text, parsed>>

scanVars == <<impl, scan_pc, interface, available_interfaces, iw_run, iwlist_run, commands,
              scan_result>>

chanVars == <<chan_frequency, chan_channel>>

anaVars == <<analyzer, ap_ssid, ap_bssid, ap_security, ap_signal, ap_frequency, ap_channel, security_profiles, loaded_ranges, threat_levels, bssid_hash, analysis, built>>

thrVars == <<level_table, score_lo, score_hi, level_lo, level_hi>>

cfgVars == <<config_file, old_file, mgr_config, mgr_profiles, mgr_ranges, mgr_modes, reload_pc, reload_todo, reader_security, reader_signal, reader_profile, reader_range>>

apiVars == <<active_scans, service_interfaces, plugged, handler, cancel_waiting, cancelled_active, scan_answer, last_answer>>

pollVars == <<scanner_running, thread_pc, stop_pc, scan_left, sleep_left, wait_left, cycles, late_cycle, late_signals>>

vars == <<distVars, classVars, parseVars, scanVars, chanVars, anaVars, thrVars, cfgVars, apiVars, pollVars>>

\* the variables outside one group
notDistVars == <<classVars, parseVars, scanVars, chanVars, anaVars, thrVars, cfgVars, apiVars, pollVars>>

notClassVars == <<distVars, parseVars, scanVars, chanVars, anaVars, thrVars, cfgVars, apiVars, pollVars>>

notParseVars == <<distVars, classVars, scanVars, chanVars, anaVars, thrVars, cfgVars, apiVars, pollVars>>

notScanVars == <<distVars, classVars, parseVars, chanVars, anaVars, thrVars, cfgVars, apiVars, pollVars>>

notChanVars == <<distVars, classVars, parseVars, scanVars, anaVars, thrVars, cfgVars, apiVars, pollVars>>

notAnaVars == <<distVars, classVars, parseVars, scanVars, chanVars, thrVars, cfgVars, apiVars, pollVars>>

notThrVars == <<distVars, classVars, parseVars, scanVars, chanVars, anaVars, cfgVars, apiVars, pollVars>>

notCfgVars == <<distVars, classVars, parseVars, scanVars, chanVars, anaVars, thrVars, apiVars, pollVars>>

notApiVars == <<distVars, classVars, parseVars, scanVars, chanVars, anaVars, thrVars, cfgVars, pollVars>>

notPollVars == <<distVars, classVars, parseVars, scanVars, chanVars, anaVars, thrVars, cfgVars, apiVars>>

-----------------------------------------------------------------------------
(* Small helpers *)

Max(a, b) == IF a >= b THEN a ELSE b

Min(a, b) == IF a <= b THEN a ELSE b

Range(s) == {s[i] : i \in DOMAIN s}

-----------------------------------------------------------------------------
(***************************************************************************)
(* Fixed-point arithmetic for distance_engine.py                           *)
(***************************************************************************)

\* 10^(i/10), 10^(i/100), 10^(i/1000) for i = 0..9, times 10000
Pow10Tenths == <<10000, 12589, 15849, 19953, 25119, 31623, 39811, 50119, 63096, 79433>>

Pow10Hundredths == <<10000, 10233, 10471, 10715, 10965, 11220, 11482, 11749, 12023, 12303>>

Pow10Thousandths == <<10000, 10023, 10046, 10069, 10093, 10116, 10139, 10162, 10186, 10209>>

\* 2^(i/6) for i = 0..5, times 10000
Pow2Sixths == <<10000, 11225, 12599, 14142, 15874, 17818>>

\* Distances of 100 km or more are kept as this value (in cm).
BigCm == 10000000

\* 10^(r/1000) times 10000, for r in 0..999
Pow10Frac(r) ==
    LET a == Pow10Tenths[(r \div 100) + 1]
        b == Pow10Hundredths[((r \div 10) % 10) + 1]
        c == Pow10Thousandths[(r % 10) + 1]
    IN  (((a * b) \div 10000) * c) \div 10000

IntPow10(k) == IF k = 0 THEN 1 ELSE IF k = 1 THEN 10 ELSE IF k = 2 THEN 100
               ELSE IF k = 3 THEN 1000 ELSE IF k = 4 THEN 10000 ELSE 100000

\* float pow overflows when the result exceeds 1.797e308 = 10^308.2547
Pow10Overflows(e) == e >= 308255

\* 10 ** (e/1000) in centimetres (the value being metres), saturated at BigCm
Pow10Cm(e) ==
    LET d == e \div 1000
        f == Pow10Frac(e % 1000)
    IN  IF d >= 5 THEN BigCm
        ELSE IF d < -4 THEN 0
        ELSE IF d >= 2 THEN f * IntPow10(d - 2)
        ELSE f \div IntPow10(2 - d)

\* 2 ** (p/6.0) in centimetres, saturated at BigCm
Pow2SixthCm(p) ==
    LET q == p \div 6
        f == Pow2Sixths[(p % 6) + 1]
    IN  IF q >= 17 THEN BigCm
        ELSE IF q = 0 THEN f \div 100
        ELSE ((f * (2 ^ q)) \div 100)

\* float pow overflows when the result reaches 2^1024
Pow2SixthOverflows(p) == p >= 6 * 1024

\* Number of decimal digits of n >= 1, minus one
Decade(n) == IF n < 10 THEN 0 ELSE IF n < 100 THEN 1 ELSE IF n < 1000 THEN 2
             ELSE IF n < 10000 THEN 3 ELSE 4

\* 1000 * math.log10(n) rounded down, for 1 <= n < 100000
Log10Milli(n) ==
    LET d == Decade(n)
        m == n * IntPow10(4 - d)
        r == CHOOSE x \in 0..999 :
                 /\ Pow10Frac(x) <= m
                 /\ (x = 999 \/ Pow10Frac(x + 1) > m)
    IN  1000 * d + r

\* x * (m/1000) for 0 <= x <= BigCm without leaving 32 bits, saturated at BigCm
MulMilli(x, m) == Min(BigCm, (x \div 1000) * m + ((x % 1000) * m) \div 1000)


-----------------------------------------------------------------------------
(***************************************************************************)
(* distance_engine.py: DistanceCalculationEngine                           *)
(***************************************************************************)

\* What a Python call yields: a float (in cm) or an exception that escaped.
Value(cm) == [kind |-> "value", cm |-> cm, exc |-> "none"]

Raises(e) == [kind |-> "raise", cm |-> 0, exc |-> e]

NotCalled == [kind |-> "none", cm |-> 0, exc |-> "none"]

\* _estimate_tx_power: 20 dBm in 2400..2500 MHz, 23 dBm in 5000..6000 MHz, else 20
estimate_tx_power(f) ==
    IF 2400 <= f /\ f <= 2500 THEN 20
    ELSE IF 5000 <= f /\ f <= 6000 THEN 23
    ELSE 20

\* _calculate_fspl_distance: math.log10 raises ValueError (caught: 50.0),
\* 10 ** distance_log raises OverflowError (not caught by the formula)
calculate_fspl_distance(s, f, tx) ==
    IF f <= 0 THEN Value(5000)
    ELSE
        LET path_loss_db == (tx - s) * 1000
            constant == -147552
            frequency_loss == 20 * (Log10Milli(f) + 6000)
            distance_log == (path_loss_db - frequency_loss - constant) \div 20
        IN  IF Pow10Overflows(distance_log) THEN Raises("OverflowError")
            ELSE Value(Max(10, Pow10Cm(distance_log)))

\* _calculate_log_normal_distance: the division by 10*n raises
\* ZeroDivisionError (caught: 50.0) when the configured exponent is 0
calculate_log_normal_distance(s, f, tx, p) ==
    LET path_loss_db == tx - s
        pl_d0 == IF f > 5000 THEN p.reference_loss + 5 ELSE p.reference_loss
    IN  IF p.path_loss_exponent10 = 0 THEN Value(5000)
        ELSE
            LET distance_log == ((path_loss_db - pl_d0) * 1000) \div p.path_loss_exponent10
            IN  IF Pow10Overflows(distance_log) THEN Raises("OverflowError")
                ELSE Value(Max(10, MulMilli(Pow10Cm(distance_log),
                                            p.reference_distance_cm * 10)))

\* _calculate_itu_indoor_distance
calculate_itu_indoor_distance(s, f, tx) ==
    IF f <= 0 THEN Value(5000)
    ELSE
        LET path_loss_db == (tx - s) * 1000
            N == IF f < 5000 THEN 28 ELSE 30
            Lf == 15000
            frequency_term == 20 * Log10Milli(f)
            distance_log == (path_loss_db - frequency_term - Lf + 28000) \div N
        IN  IF Pow10Overflows(distance_log) THEN Raises("OverflowError")
            ELSE Value(Max(10, Pow10Cm(distance_log)))

\* ConfigurationManager.get_signal_range_info: the first range, in the
\* table's own order, whose min_dbm the signal reaches; 0 when there is none
get_signal_range_info(ranges, s) ==
    LET hits == {i \in DOMAIN ranges : s >= ranges[i].min_dbm}
    IN  IF hits = {} THEN 0 ELSE CHOOSE i \in hits : \A j \in hits : i <= j

\* the first band, in the table's own order, that holds the frequency; 0 when none
first_frequency_band(bands, f) ==
    LET hits == {i \in DOMAIN bands : bands[i].min <= f /\ f <= bands[i].max}
    IN  IF hits = {} THEN 0 ELSE CHOOSE i \in hits : \A j \in hits : i <= j

\* _apply_corrections
apply_corrections(base_distance, s, f, ranges, bands) ==
    LET r == get_signal_range_info(ranges, s)
        d1 == IF r # 0 THEN MulMilli(base_distance, ranges[r].multiplier) ELSE base_distance
        b == first_frequency_band(bands, f)
        d2 == IF b # 0 THEN MulMilli(d1, bands[b].multiplier) ELSE d1
    IN  IF s < -80 THEN MulMilli(d2, 1500)
        ELSE IF s > -40 THEN MulMilli(d2, 800)
        ELSE d2

\* _fallback_distance_estimate: no clamp; 2 ** (path_loss / 6.0) raises
\* OverflowError from 2^1024 on
fallback_distance_estimate(s) ==
    IF s >= -30 THEN Value(100)
    ELSE
        LET path_loss == -30 - s
        IN  IF Pow2SixthOverflows(path_loss) THEN Raises("OverflowError")
            ELSE Value(Pow2SixthCm(path_loss))

\* round(final_distance, 1): to the nearest 10 cm
round1(cm) == ((cm + 5) \div 10) * 10

\* the weighted three-formula path of calculate_distance (the try block)
three_formula_path(s, f, p, ranges, bands) ==
    LET tx == estimate_tx_power(f)
        fspl == calculate_fspl_distance(s, f, tx)
        log_normal == calculate_log_normal_distance(s, f, tx, p)
        itu == calculate_itu_indoor_distance(s, f, tx)
    IN  IF fspl.kind = "raise" THEN fspl
        ELSE IF log_normal.kind = "raise" THEN log_normal
        ELSE IF itu.kind = "raise" THEN itu
        ELSE
            LET combined == (3 * fspl.cm + 5 * log_normal.cm + 2 * itu.cm) \div 10
                corrected == apply_corrections(Min(BigCm, combined), s, f, ranges, bands)
                final == Max(50, Min(200000, corrected))
            IN  Value(round1(final))

\* calculate_distance: except Exception -> _fallback_distance_estimate
calculate_distance(s, f, p, ranges, bands) ==
    LET r == three_formula_path(s, f, p, ranges, bands)
    IN  IF r.kind = "raise" THEN fallback_distance_estimate(s) ELSE r

-----------------------------------------------------------------------------
(***************************************************************************)
(* Python str operations on sequences of one-character strings             *)
(***************************************************************************)

UpperChars == <<"A","B","C","D","E","F","G","H","I","J","K","L","M",
                "N","O","P","Q","R","S","T","U","V","W","X","Y","Z">>

LowerChars == <<"a","b","c","d","e","f","g","h","i","j","k","l","m",
                "n","o","p","q","r","s","t","u","v","w","x","y","z">>

DigitChars == <<"0","1","2","3","4","5","6","7","8","9">>

IsSpace(c) == c \in {" ", "\t", "\n"}

IsDigit(c) == c \in Range(DigitChars)

IsHexDigit(c) == \/ IsDigit(c)
                 \/ c \in {"a","b","c","d","e","f","A","B","C","D","E","F"}

DigitValue(c) == (CHOOSE i \in DOMAIN DigitChars : DigitChars[i] = c) - 1

\* str.lower() of one character
LowerChar(c) ==
    IF c \in Range(UpperChars)
    THEN LowerChars[CHOOSE i \in DOMAIN UpperChars : UpperChars[i] = c]
    ELSE c

\* str.upper() of one character
UpperChar(c) ==
    IF c \in Range(LowerChars)
    THEN UpperChars[CHOOSE i \in DOMAIN LowerChars : LowerChars[i] = c]
    ELSE c

\* s.lower()
Lower(s) == [i \in DOMAIN s |-> LowerChar(s[i])]

\* s.upper()
Upper(s) == [i \in DOMAIN s |-> UpperChar(s[i])]

\* s[i:] with a 1-based i
From(s, i) == SubSeq(s, i, Len(s))

\* s starts with sub at position i
MatchAt(s, i, sub) ==
    /\ i >= 1
    /\ i + Len(sub) - 1 <= Len(s)
    /\ SubSeq(s, i, i + Len(sub) - 1) = sub

\* sub in s
Contains(s, sub) == \E i \in 1..(Len(s) - Len(sub) + 1) : MatchAt(s, i, sub)

\* s.startswith(sub)
StartsWith(s, sub) == MatchAt(s, 1, sub)

\* s.find(sub) + 1: the first position of sub in s, 0 when absent
Find(s, sub) ==
    LET hits == {i \in 1..(Len(s) - Len(sub) + 1) : MatchAt(s, i, sub)}
    IN  IF hits = {} THEN 0 ELSE CHOOSE i \in hits : \A j \in hits : i <= j

\* s.strip()
Strip(s) ==
    LET keep == {i \in DOMAIN s : ~IsSpace(s[i])}
    IN  IF keep = {} THEN <<>>
        ELSE LET lo == CHOOSE i \in keep : \A j \in keep : i <= j
                 hi == CHOOSE i \in keep : \A j \in keep : i >= j
             IN  SubSeq(s, lo, hi)

\* s.strip('"')
StripQuotes(s) ==
    LET keep == {i \in DOMAIN s : s[i] # "\""}
    IN  IF keep = {} THEN <<>>
        ELSE LET lo == CHOOSE i \in keep : \A j \in keep : i <= j
                 hi == CHOOSE i \in keep : \A j \in keep : i >= j
             IN  SubSeq(s, lo, hi)

\* s.split(): the maximal runs of non-space characters, in order
RECURSIVE SplitSpace(_)
SplitSpace(s) ==
    LET t == Strip(s)
    IN  IF t = <<>> THEN <<>>
        ELSE LET sp == {i \in DOMAIN t : IsSpace(t[i])}
             IN  IF sp = {} THEN <<t>>
                 ELSE LET k == CHOOSE i \in sp : \A j \in sp : i <= j
                      IN  <<SubSeq(t, 1, k - 1)>> \o SplitSpace(From(t, k + 1))

\* s.split(sep) for a non-empty separator: the pieces between the occurrences
RECURSIVE SplitOn(_, _)
SplitOn(s, sep) ==
    LET k == Find(s, sep)
    IN  IF k = 0 THEN <<s>>
        ELSE <<SubSeq(s, 1, k - 1)>> \o SplitOn(From(s, k + Len(sep)), sep)

\* sep.join(parts)
RECURSIVE Join(_, _)
Join(parts, sep) ==
    IF parts = <<>> THEN <<>>
    ELSE IF Len(parts) = 1 THEN parts[1]
    ELSE parts[1] \o sep \o Join(Tail(parts), sep)

\* the end (exclusive) of the longest run of characters satisfying a class,
\* starting at position i
RECURSIVE SkipDigits(_, _)
SkipDigits(s, i) == IF i <= Len(s) /\ IsDigit(s[i]) THEN SkipDigits(s, i + 1) ELSE i

RECURSIVE SkipSpaces(_, _)
SkipSpaces(s, i) == IF i <= Len(s) /\ IsSpace(s[i]) THEN SkipSpaces(s, i + 1) ELSE i

\* int(digits) for a non-empty run of decimal digits
RECURSIVE ParseInt(_)
ParseInt(ds) ==
    IF ds = <<>> THEN 0
    ELSE 10 * ParseInt(SubSeq(ds, 1, Len(ds) - 1)) + DigitValue(ds[Len(ds)])

-----------------------------------------------------------------------------
(***************************************************************************)
(* api/services/wifi_service.py: WiFiService                               *)
(*                                                                         *)
(* Floats read from text (signal_dbm, GHz) are kept in thousandths.        *)
(***************************************************************************)

\* float(s) for the decimal forms [+-]digits[.digits] and [+-].digits; any
\* other text raises ValueError (ok = FALSE).  Exponent, inf, nan and
\* underscore forms do not occur in the texts the model draws.
ParseFloat(s0) ==
    LET s == Strip(s0)
        signed == s # <<>> /\ s[1] \in {"-", "+"}
        i == IF signed THEN 2 ELSE 1
        j == SkipDigits(s, i)
        dot == j <= Len(s) /\ s[j] = "."
        k == IF dot THEN SkipDigits(s, j + 1) ELSE j
        intpart == SubSeq(s, i, j - 1)
        frac == IF dot THEN SubSeq(s, j + 1, k - 1) ELSE <<>>
        frac3 == SubSeq(frac \o <<"0","0","0">>, 1, 3)
        magnitude == 1000 * ParseInt(intpart) + ParseInt(frac3)
    IN  IF k = Len(s) + 1 /\ (intpart # <<>> \/ frac # <<>>)
        THEN [ok |-> TRUE, milli |-> IF signed /\ s[1] = "-" THEN -magnitude ELSE magnitude]
        ELSE [ok |-> FALSE, milli |-> 0]

\* signal_pattern = r"signal:\s*(-\d+\.?\d*)\s*dBm" tried at position i:
\* the captured group, or <<>> when the pattern does not match there
SignalMatchAt(s, i) ==
    IF ~MatchAt(s, i, <<"s","i","g","n","a","l",":">>) THEN <<>>
    ELSE
        LET j == SkipSpaces(s, i + 7)
            k == SkipDigits(s, j + 1)
            dot == k <= Len(s) /\ s[k] = "."
            m == IF dot THEN SkipDigits(s, k + 1) ELSE k
            n == SkipSpaces(s, m)
        IN  IF /\ j <= Len(s) /\ s[j] = "-"
               /\ k > j + 1
               /\ MatchAt(s, n, <<"d","B","m">>)
            THEN SubSeq(s, j, m - 1)
            ELSE <<>>

\* signal_pattern.search(s): group 1 of the leftmost match, <<>> for no match
signal_pattern_search(s) ==
    LET hits == {i \in DOMAIN s : SignalMatchAt(s, i) # <<>>}
    IN  IF hits = {} THEN <<>>
        ELSE SignalMatchAt(s, CHOOSE i \in hits : \A j \in hits : i <= j)

\* freq_pattern = r"freq:\s*(\d+)" tried at position i
FreqMatchAt(s, i) ==
    IF ~MatchAt(s, i, <<"f","r","e","q",":">>) THEN <<>>
    ELSE LET j == SkipSpaces(s, i + 5)
         IN  SubSeq(s, j, SkipDigits(s, j) - 1)

\* freq_pattern.search(s): group 1 of the leftmost match, <<>> for no match
freq_pattern_search(s) ==
    LET hits == {i \in DOMAIN s : FreqMatchAt(s, i) # <<>>}
    IN  IF hits = {} THEN <<>>
        ELSE FreqMatchAt(s, CHOOSE i \in hits : \A j \in hits : i <= j)

\* mac_pattern: six pairs of hex digits separated by colons, at position i
MacMatchAt(s, i) ==
    /\ i + 16 <= Len(s)
    /\ \A k \in 0..16 :
          IF k % 3 = 2 THEN s[i + k] = ":" ELSE IsHexDigit(s[i + k])

\* mac_pattern.search(s): the leftmost match, <<>> for no match
mac_pattern_search(s) ==
    LET hits == {i \in DOMAIN s : MacMatchAt(s, i)}
    IN  IF hits = {} THEN <<>>
        ELSE LET i == CHOOSE i \in hits : \A j \in hits : i <= j
             IN  SubSeq(s, i, i + 16)

\* a classifier that tests the bare WPA marker before the WPA2/RSN markers
determine_security_type_wpa_first(security_info) ==
    LET security_text == Lower(Join(security_info, <<" ">>))
    IN  IF Contains(security_text, <<"w","p","a","3">>) THEN "WPA3"
        ELSE IF Contains(security_text, <<"w","p","a">>) THEN "WPA"
        ELSE IF Contains(security_text, <<"w","p","a","2">>) \/ Contains(security_text, <<"r","s","n">>) THEN "WPA2"
        ELSE IF Contains(security_text, <<"w","e","p">>) \/ Contains(security_text, <<"p","r","i","v","a","c","y">>) THEN "WEP"
        ELSE IF Contains(security_text, <<"w","p","s">>) THEN "WPS"
        ELSE IF security_info = <<>> \/ Contains(security_text, <<"n","o","n","e">>) THEN "Open"
        ELSE "Unknown"

\* _determine_security_type
determine_security_type(security_info) ==
    LET security_text == Lower(Join(security_info, <<" ">>))
    IN  IF Contains(security_text, <<"w","p","a","3">>) THEN "WPA3"
        ELSE IF Contains(security_text, <<"w","p","a","2">>) \/ Contains(security_text, <<"r","s","n">>) THEN "WPA2"
        ELSE IF Contains(security_text, <<"w","p","a">>) THEN "WPA"
        ELSE IF Contains(security_text, <<"w","e","p">>) \/ Contains(security_text, <<"p","r","i","v","a","c","y">>) THEN "WEP"
        ELSE IF Contains(security_text, <<"w","p","s">>) THEN "WPS"
        ELSE IF security_info = <<>> \/ Contains(security_text, <<"n","o","n","e">>) THEN "Open"
        ELSE "Unknown"

\* _frequency_to_channel; None is written 0 (no frequency maps to channel 0)
frequency_to_channel(frequency) ==
    IF frequency = 0 THEN 0
    ELSE IF 2412 <= frequency /\ frequency <= 2484
         THEN IF frequency = 2484 THEN 14 ELSE ((frequency - 2412) \div 5) + 1
    ELSE IF 5170 <= frequency /\ frequency <= 5825
         THEN (frequency - 5000) \div 5
    ELSE 0

\* _assess_threat_level (signal in thousandths of a dBm)
assess_threat_level(security, signal) ==
    IF security = "Open" THEN (IF signal > -60000 THEN "HIGH" ELSE "MEDIUM")
    ELSE IF security \in {"WEP", "WPS"} THEN (IF signal > -70000 THEN "MEDIUM" ELSE "LOW")
    ELSE "LOW"

\* the parser's accumulator dict current_ap; has_x is "'x' in current_ap"
EmptyAp ==
    [has_bssid |-> FALSE, bssid |-> <<>>,
     has_ssid |-> FALSE, ssid |-> <<>>,
     has_signal |-> FALSE, signal_dbm |-> 0,
     has_frequency |-> FALSE, frequency |-> 0,
     security_info |-> <<>>]

\* {'bssid': b}
NewAp(b) == [EmptyAp EXCEPT !.has_bssid = TRUE, !.bssid = b]

\* f"Hidden_{current_ap.get('bssid', 'Unknown')}"
HiddenName(ap) == <<"H","i","d","d","e","n","_">> \o (IF ap.has_bssid THEN ap.bssid ELSE <<"U","n","k","n","o","w","n">>)

\* _create_access_point: <<>> for None, else <<the AccessPoint>>.  The
\* AccessPoint model leaves vendor, distance, vulnerability_score and
\* attack_vectors at their defaults; confidence is in hundredths.
create_access_point(ap_data) ==
    LET bssid == IF ap_data.has_bssid THEN ap_data.bssid ELSE <<>>
        ssid == IF ap_data.has_ssid THEN ap_data.ssid ELSE <<"H","i","d","d","e","n","_">> \o bssid
        signal == IF ap_data.has_signal THEN ap_data.signal_dbm ELSE -100000
        frequency == IF ap_data.has_frequency THEN ap_data.frequency ELSE 0
        security == determine_security_type(ap_data.security_info)
    IN  IF bssid = <<>> THEN <<>>
        ELSE <<[bssid |-> bssid,
                ssid |-> ssid,
                signal_dbm |-> signal,
                frequency |-> frequency,
                channel |-> frequency_to_channel(frequency),
                security |-> security,
                threat_level |-> assess_threat_level(security, signal),
                vulnerability_score |-> 0,
                confidence |-> 80]>>

\* "if current_ap and 'bssid' in current_ap: ... access_points.append(ap)"
Flush(access_points, current_ap) ==
    IF current_ap.has_bssid
    THEN access_points \o create_access_point(current_ap)
    ELSE access_points

\* one turn of the loop of _parse_iw_output, on one line of the output
parse_iw_line(st, raw) ==
    LET line == Strip(raw)
        cur == st.current_ap
    IN  IF StartsWith(line, <<"B","S","S"," ">>)
        THEN [access_points |-> Flush(st.access_points, cur),
              current_ap |-> NewAp(SplitOn(SplitSpace(line)[2], <<"(">>)[1])]
        ELSE IF StartsWith(line, <<"S","S","I","D",":"," ">>)
        THEN [st EXCEPT !.current_ap.has_ssid = TRUE,
                        !.current_ap.ssid = IF From(line, 7) # <<>> THEN From(line, 7)
                                            ELSE HiddenName(cur)]
        ELSE IF Contains(line, <<"s","i","g","n","a","l",":">>)
        THEN LET g == signal_pattern_search(line)
             IN  IF g # <<>>
                 THEN [st EXCEPT !.current_ap.has_signal = TRUE,
                                 !.current_ap.signal_dbm = ParseFloat(g).milli]
                 ELSE st
        ELSE IF Contains(line, <<"f","r","e","q",":">>)
        THEN LET g == freq_pattern_search(line)
             IN  IF g # <<>>
                 THEN [st EXCEPT !.current_ap.has_frequency = TRUE,
                                 !.current_ap.frequency = ParseInt(g)]
                 ELSE st
        ELSE IF \E sec \in {<<"w","p","a">>, <<"w","e","p">>, <<"p","r","i","v","a","c","y">>} : Contains(Lower(line), sec)
        THEN [st EXCEPT !.current_ap.security_info = Append(@, line)]
        ELSE st

RECURSIVE parse_iw_lines(_, _)
parse_iw_lines(st, lines) ==
    IF lines = <<>> THEN st
    ELSE parse_iw_lines(parse_iw_line(st, Head(lines)), Tail(lines))

\* _parse_iw_output: the list of AccessPoint records
parse_iw_output(output) ==
    LET st == parse_iw_lines([access_points |-> <<>>, current_ap |-> EmptyAp],
                             SplitOn(output, <<"\n">>))
    IN  Flush(st.access_points, st.current_ap)

\* signal_str.replace('dBm', '')
RemoveDbm(s) == Join(SplitOn(s, <<"d","B","m">>), <<>>)

\* one turn of the loop of _parse_iwlist_output; st.exc records an exception
\* the loop body raised (nothing in the parser catches an IndexError)
parse_iwlist_line(st, raw) ==
    LET line == Strip(raw)
        cur == st.current_ap
    IN  IF Contains(line, <<"A","d","d","r","e","s","s",":">>) /\ Contains(line, <<"C","e","l","l">>)
        THEN LET mac == mac_pattern_search(line)
             IN  [st EXCEPT !.access_points = Flush(st.access_points, cur),
                            !.current_ap = IF mac # <<>> THEN NewAp(mac) ELSE cur]
        ELSE IF Contains(line, <<"E","S","S","I","D",":">>)
        THEN LET essid == StripQuotes(Strip(SplitOn(line, <<"E","S","S","I","D",":">>)[2]))
             IN  [st EXCEPT !.current_ap.has_ssid = TRUE,
                            !.current_ap.ssid = IF essid # <<>> THEN essid
                                                ELSE HiddenName(cur)]
        ELSE IF Contains(line, <<"S","i","g","n","a","l"," ","l","e","v","e","l","=">>)
        THEN LET words == SplitSpace(SplitOn(line, <<"S","i","g","n","a","l"," ","l","e","v","e","l","=">>)[2])
             IN  IF words = <<>> THEN [st EXCEPT !.exc = "IndexError"]
                 ELSE IF Contains(words[1], <<"d","B","m">>) /\ ParseFloat(RemoveDbm(words[1])).ok
                 THEN [st EXCEPT !.current_ap.has_signal = TRUE,
                                 !.current_ap.signal_dbm = ParseFloat(RemoveDbm(words[1])).milli]
                 ELSE st
        ELSE IF Contains(line, <<"F","r","e","q","u","e","n","c","y",":">>)
        THEN LET words == SplitSpace(SplitOn(line, <<"F","r","e","q","u","e","n","c","y",":">>)[2])
             IN  IF words = <<>> THEN [st EXCEPT !.exc = "IndexError"]
                 ELSE IF ParseFloat(words[1]).ok
                 THEN [st EXCEPT !.current_ap.has_frequency = TRUE,
                                 !.current_ap.frequency = ParseFloat(words[1]).milli]
                 ELSE st
        ELSE IF \E sec \in {<<"E","n","c","r","y","p","t","i","o","n">>, <<"A","u","t","h","e","n","t","i","c","a","t","i","o","n">>, <<"W","P","A">>, <<"W","E","P">>} :
                    Contains(line, sec)
        THEN [st EXCEPT !.current_ap.security_info = Append(@, line)]
        ELSE st

RECURSIVE parse_iwlist_lines(_, _)
parse_iwlist_lines(st, lines) ==
    IF lines = <<>> \/ st.exc # "none" THEN st
    ELSE parse_iwlist_lines(parse_iwlist_line(st, Head(lines)), Tail(lines))

\* what a parser call yields: the records, or the exception that escaped it
Parsed(aps) == [kind |-> "value", access_points |-> aps, exc |-> "none"]

ParseRaised(e) == [kind |-> "raise", access_points |-> <<>>, exc |-> e]

\* _parse_iwlist_output
parse_iwlist_output(output) ==
    LET st == parse_iwlist_lines([access_points |-> <<>>, current_ap |-> EmptyAp,
                                  exc |-> "none"],
                                 SplitOn(output, <<"\n">>))
    IN  IF st.exc # "none" THEN ParseRaised(st.exc)
        ELSE Parsed(Flush(st.access_points, st.current_ap))

-----------------------------------------------------------------------------
(***************************************************************************)
(* legacy-desktop/wifi_radar_nav_enhanced.py: the module-level scanner     *)
(***************************************************************************)

\* the end (exclusive) of the line that position i is on
RECURSIVE LineEnd(_, _)
LineEnd(s, i) == IF i <= Len(s) /\ s[i] # "\n" THEN LineEnd(s, i + 1) ELSE i

\* SSID_PATTERN = r'SSID:\s*(.+?)(?:\n|$)' tried at position i: \s* is greedy
\* and runs over newlines, then gives characters back until one that is not
\* a newline can start the group; the group runs to the end of its line.
\* [ok, group]
LegacySsidMatchAt(s, i) ==
    IF ~MatchAt(s, i, <<"S","S","I","D",":">>) THEN [ok |-> FALSE, group |-> <<>>]
    ELSE
        LET w == SkipSpaces(s, i + 5)
            starts == {e \in (i + 5)..w : e <= Len(s) /\ s[e] # "\n"}
        IN  IF starts = {} THEN [ok |-> FALSE, group |-> <<>>]
            ELSE LET e == CHOOSE x \in starts : \A y \in starts : x >= y
                 IN  [ok |-> TRUE, group |-> SubSeq(s, e, LineEnd(s, e) - 1)]

\* SSID_PATTERN.search(block): group 1 of the leftmost match
LegacySsidSearch(s) ==
    LET hits == {i \in DOMAIN s : LegacySsidMatchAt(s, i).ok}
    IN  IF hits = {} THEN [ok |-> FALSE, group |-> <<>>]
        ELSE LegacySsidMatchAt(s, CHOOSE i \in hits : \A j \in hits : i <= j)

\* SIGNAL_PATTERN = r'signal:\s*(-?\d+(?:\.\d+)?)\s*dBm', re.IGNORECASE
LegacySignalMatchAt(s, i) ==
    IF ~MatchAt(Lower(s), i, <<"s","i","g","n","a","l",":">>) THEN <<>>
    ELSE
        LET j == SkipSpaces(s, i + 7)
            j1 == IF j <= Len(s) /\ s[j] = "-" THEN j + 1 ELSE j
            k == SkipDigits(s, j1)
            frac == /\ k <= Len(s) /\ s[k] = "."
                    /\ SkipDigits(s, k + 1) > k + 1
            m == IF frac THEN SkipDigits(s, k + 1) ELSE k
            n == SkipSpaces(s, m)
        IN  IF k > j1 /\ MatchAt(Lower(s), n, <<"d","b","m">>)
            THEN SubSeq(s, j, m - 1)
            ELSE <<>>

LegacySignalSearch(s) ==
    LET hits == {i \in DOMAIN s : LegacySignalMatchAt(s, i) # <<>>}
    IN  IF hits = {} THEN <<>>
        ELSE LegacySignalMatchAt(s, CHOOSE i \in hits : \A j \in hits : i <= j)

\* FREQ_PATTERN = r'freq:\s*(\d+)', re.IGNORECASE
LegacyFreqMatchAt(s, i) ==
    IF ~MatchAt(Lower(s), i, <<"f","r","e","q",":">>) THEN <<>>
    ELSE LET j == SkipSpaces(s, i + 5)
         IN  SubSeq(s, j, SkipDigits(s, j) - 1)

LegacyFreqSearch(s) ==
    LET hits == {i \in DOMAIN s : LegacyFreqMatchAt(s, i) # <<>>}
    IN  IF hits = {} THEN <<>>
        ELSE LegacyFreqMatchAt(s, CHOOSE i \in hits : \A j \in hits : i <= j)

\* the body of the loop of the legacy parse_iw_output on one block:
\* <<>> when the block is skipped (continue), else <<the network dict>>
legacy_parse_iw_block(block) ==
    LET lines == SplitOn(block, <<"\n">>)
        bssid == Strip(SplitOn(lines[1], <<"(">>)[1])
        ssid_match == LegacySsidSearch(block)
        ssid == IF ssid_match.ok THEN Strip(ssid_match.group) ELSE <<>>
        signal_match == LegacySignalSearch(block)
        freq_match == LegacyFreqSearch(block)
        frequency == ParseInt(freq_match)
        channel == IF 2412 <= frequency /\ frequency <= 2484
                   THEN ((frequency - 2412) \div 5) + 1
                   ELSE IF 5170 <= frequency /\ frequency <= 5825
                   THEN (frequency - 5000) \div 5
                   ELSE 0
        security ==
            IF Contains(block, <<"P","r","i","v","a","c","y">>) \/ Contains(block, <<"C","a","p","a","b","i","l","i","t","y">>)
            THEN IF Contains(block, <<"R","S","N">>)
                 THEN (IF Contains(block, <<"S","A","E">>) \/ Contains(block, <<"W","P","A","3">>)
                       THEN "WPA3" ELSE "WPA2")
                 ELSE IF Contains(block, <<"W","P","A">>) THEN "WPA"
                 ELSE IF Contains(block, <<"P","r","i","v","a","c","y">>) THEN "WEP"
                 ELSE "Open"
            ELSE "Open"
    IN  IF signal_match = <<>> THEN <<>>
        ELSE IF freq_match = <<>> THEN <<>>
        ELSE <<[bssid |-> bssid,
                ssid |-> ssid,
                signal |-> ParseFloat(signal_match).milli,
                frequency |-> frequency,
                channel |-> channel,
                security |-> security,
                wps_enabled |-> Contains(block, <<"W","P","S">>)
                                \/ Contains(block, <<"W","i","-","F","i"," ","P","r","o","t","e","c","t","e","d"," ","S","e","t","u","p">>)]>>

RECURSIVE legacy_parse_iw_blocks(_)
legacy_parse_iw_blocks(blocks) ==
    IF blocks = <<>> THEN <<>>
    ELSE legacy_parse_iw_block(Head(blocks)) \o legacy_parse_iw_blocks(Tail(blocks))

\* the legacy parse_iw_output: blocks = output.split('BSS ')[1:]
legacy_parse_iw_output(output) ==
    legacy_parse_iw_blocks(Tail(SplitOn(output, <<"B","S","S"," ">>)))

\* the end (exclusive) of the longest run of characters of a set from i
RECURSIVE SkipIn(_, _, _)
SkipIn(s, i, chars) == IF i <= Len(s) /\ s[i] \in chars THEN SkipIn(s, i + 1, chars) ELSE i

\* re.search(r'Address: ([0-9A-F:]{17})', cell, re.IGNORECASE) at position i
LegacyAddressMatchAt(s, i) ==
    /\ MatchAt(Lower(s), i, <<"a","d","d","r","e","s","s",":"," ">>)
    /\ i + 25 <= Len(s)
    /\ \A k \in 9..25 : IsHexDigit(s[i + k]) \/ s[i + k] = ":"

LegacyAddressSearch(s) ==
    LET hits == {i \in DOMAIN s : LegacyAddressMatchAt(s, i)}
    IN  IF hits = {} THEN <<>>
        ELSE LET i == CHOOSE i \in hits : \A j \in hits : i <= j
             IN  SubSeq(s, i + 9, i + 25)

\* re.search(r'ESSID:"(.+?)"', cell) at position i: the group starts with any
\* character but a newline and ends before the next quote on its line
LegacyEssidMatchAt(s, i) ==
    IF ~MatchAt(s, i, <<"E","S","S","I","D",":","\"">>) THEN <<>>
    ELSE LET e == i + 7
             quotes == {x \in (e + 1)..(LineEnd(s, e) - 1) : s[x] = "\""}
         IN  IF e > Len(s) \/ quotes = {} THEN <<>>
             ELSE SubSeq(s, e, (CHOOSE x \in quotes : \A y \in quotes : x <= y) - 1)

LegacyEssidSearch(s) ==
    LET hits == {i \in DOMAIN s : LegacyEssidMatchAt(s, i) # <<>>}
    IN  IF hits = {} THEN <<>>
        ELSE LegacyEssidMatchAt(s, CHOOSE i \in hits : \A j \in hits : i <= j)

\* re.search(r'Signal level=([-\d]+) dBm', cell) at position i
LegacyLevelMatchAt(s, i) ==
    IF ~MatchAt(s, i, <<"S","i","g","n","a","l"," ","l","e","v","e","l","=">>) THEN <<>>
    ELSE LET j == i + 13
             k == SkipIn(s, j, Range(DigitChars) \cup {"-"})
         IN  IF MatchAt(s, k, <<" ","d","B","m">>) THEN SubSeq(s, j, k - 1) ELSE <<>>

LegacyLevelSearch(s) ==
    LET hits == {i \in DOMAIN s : LegacyLevelMatchAt(s, i) # <<>>}
    IN  IF hits = {} THEN <<>>
        ELSE LegacyLevelMatchAt(s, CHOOSE i \in hits : \A j \in hits : i <= j)

\* re.search(r'Frequency:([\d.]+) GHz', cell) at position i
LegacyGhzMatchAt(s, i) ==
    IF ~MatchAt(s, i, <<"F","r","e","q","u","e","n","c","y",":">>) THEN <<>>
    ELSE LET j == i + 10
             k == SkipIn(s, j, Range(DigitChars) \cup {"."})
         IN  IF MatchAt(s, k, <<" ","G","H","z">>) THEN SubSeq(s, j, k - 1) ELSE <<>>

LegacyGhzSearch(s) ==
    LET hits == {i \in DOMAIN s : LegacyGhzMatchAt(s, i) # <<>>}
    IN  IF hits = {} THEN <<>>
        ELSE LegacyGhzMatchAt(s, CHOOSE i \in hits : \A j \in hits : i <= j)

\* the body of the loop of the legacy parse_iwlist_output on one cell;
\* float() raising ValueError skips the cell (except ... continue)
legacy_parse_iwlist_cell(cell) ==
    LET bssid == LegacyAddressSearch(cell)
        ssid == LegacyEssidSearch(cell)
        signal_match == LegacyLevelSearch(cell)
        freq_match == LegacyGhzSearch(cell)
        frequency == IF freq_match # <<>> THEN ParseFloat(freq_match).milli ELSE 2437
        channel == IF 2412 <= frequency /\ frequency <= 2484
                   THEN ((frequency - 2412) \div 5) + 1
                   ELSE 0
        security ==
            IF Contains(cell, <<"E","n","c","r","y","p","t","i","o","n"," ","k","e","y",":","o","n">>)
            THEN IF Contains(cell, <<"W","P","A","3">>) THEN "WPA3"
                 ELSE IF Contains(cell, <<"W","P","A","2">>) THEN "WPA2"
                 ELSE IF Contains(cell, <<"W","P","A">>) THEN "WPA"
                 ELSE "WEP"
            ELSE "Open"
    IN  IF bssid = <<>> THEN <<>>
        ELSE IF signal_match = <<>> THEN <<>>
        ELSE IF ~ParseFloat(signal_match).ok THEN <<>>
        ELSE IF freq_match # <<>> /\ ~ParseFloat(freq_match).ok THEN <<>>
        ELSE <<[bssid |-> bssid,
                ssid |-> ssid,
                signal |-> ParseFloat(signal_match).milli,
                frequency |-> frequency,
                channel |-> channel,
                security |-> security,
                wps_enabled |-> FALSE]>>

RECURSIVE legacy_parse_iwlist_cells(_)
legacy_parse_iwlist_cells(cells) ==
    IF cells = <<>> THEN <<>>
    ELSE legacy_parse_iwlist_cell(Head(cells)) \o legacy_parse_iwlist_cells(Tail(cells))

\* the legacy parse_iwlist_output: cells = output.split('Cell ')[1:]
legacy_parse_iwlist_output(output) ==
    legacy_parse_iwlist_cells(Tail(SplitOn(output, <<"C","e","l","l"," ">>)))

-----------------------------------------------------------------------------
(***************************************************************************)
(* The texts the model feeds to the parsers: lines as `iw dev <if> scan`   *)
(* and `iwlist <if> scan` print them, and damaged variants of them.        *)
(***************************************************************************)

\* "BSS aa:bb:cc:dd:ee:ff(on wlan0)"
IwBssA == <<"B","S","S"," ","a","a",":","b","b",":","c","c",":","d","d",":","e","e",":","f","f","(","o","n"," ","w","l","a","n","0",")">>

\* "BSS 11:22:33:44:55:66(on wlan0)"
IwBssB == <<"B","S","S"," ","1","1",":","2","2",":","3","3",":","4","4",":","5","5",":","6","6","(","o","n"," ","w","l","a","n","0",")">>

\* "\tBSS Load:", the header of the BSS Load element inside a block
IwBssLoad == <<"\t","B","S","S"," ","L","o","a","d",":">>

\* "\tSSID: TestNet"
IwSsid == <<"\t","S","S","I","D",":"," ","T","e","s","t","N","e","t">>

\* "\tSSID: ", a hidden network
IwSsidHidden == <<"\t","S","S","I","D",":"," ">>

\* "\tsignal: -45.00 dBm"
IwSignal == <<"\t","s","i","g","n","a","l",":"," ","-","4","5",".","0","0"," ","d","B","m">>

\* "\tsignal: n/a dBm", a signal that is not numeric
IwSignalBad == <<"\t","s","i","g","n","a","l",":"," ","n","/","a"," ","d","B","m">>

\* "\tfreq: 2437"
IwFreq == <<"\t","f","r","e","q",":"," ","2","4","3","7">>

\* "\tfreq: ", an empty frequency
IwFreqEmpty == <<"\t","f","r","e","q",":"," ">>

\* "\tRSN:\t * Version: 1"
IwRsn == <<"\t","R","S","N",":","\t"," ","*"," ","V","e","r","s","i","o","n",":"," ","1">>

\* "\tWPA:\t * Version: 1"
IwWpa == <<"\t","W","P","A",":","\t"," ","*"," ","V","e","r","s","i","o","n",":"," ","1">>

\* "\tcapability: ESS Privacy (0x0411)"
IwPrivacy == <<"\t","c","a","p","a","b","i","l","i","t","y",":"," ","E","S","S"," ","P","r","i","v","a","c","y"," ","(","0","x","0","4","1","1",")">>

IwVocabulary ==
    {IwBssA, IwBssB, IwBssLoad, IwSsid, IwSsidHidden, IwSignal, IwSignalBad,
     IwFreq, IwFreqEmpty, IwRsn, IwWpa, IwPrivacy}

\* "  Cell 01 - Address: AA:BB:CC:DD:EE:FF"
ListCellA == <<" "," ","C","e","l","l"," ","0","1"," ","-"," ","A","d","d","r","e","s","s",":"," ","A","A",":","B","B",":","C","C",":","D","D",":","E","E",":","F","F">>

\* "  Cell 02 - Address: 11:22:33:44:55:66"
ListCellB == <<" "," ","C","e","l","l"," ","0","2"," ","-"," ","A","d","d","r","e","s","s",":"," ","1","1",":","2","2",":","3","3",":","4","4",":","5","5",":","6","6">>

\* "  Cell 03 - Address: ", a cell line that lost its address
ListCellNoAddress == <<" "," ","C","e","l","l"," ","0","3"," ","-"," ","A","d","d","r","e","s","s",":"," ">>

\* "    ESSID:\"Net\""
ListEssid == <<" "," "," "," ","E","S","S","I","D",":","\"","N","e","t","\"">>

\* "    ESSID:\"\"", a hidden network
ListEssidHidden == <<" "," "," "," ","E","S","S","I","D",":","\"","\"">>

\* "    Quality=70/70  Signal level=-45 dBm"
ListSignal == <<" "," "," "," ","Q","u","a","l","i","t","y","=","7","0","/","7","0"," "," ","S","i","g","n","a","l"," ","l","e","v","e","l","=","-","4","5"," ","d","B","m">>

\* "    Signal level=-60dBm", the unit glued to the number
ListSignalGlued == <<" "," "," "," ","S","i","g","n","a","l"," ","l","e","v","e","l","=","-","6","0","d","B","m">>

\* "    Quality=70/70  Signal level=", a signal field that is empty
ListSignalEmpty == <<" "," "," "," ","Q","u","a","l","i","t","y","=","7","0","/","7","0"," "," ","S","i","g","n","a","l"," ","l","e","v","e","l","=">>

\* "    Signal level=lowdBm", a signal that is not numeric
ListSignalBad == <<" "," "," "," ","S","i","g","n","a","l"," ","l","e","v","e","l","=","l","o","w","d","B","m">>

\* "    Frequency:2.437 GHz (Channel 6)"
ListFreq == <<" "," "," "," ","F","r","e","q","u","e","n","c","y",":","2",".","4","3","7"," ","G","H","z"," ","(","C","h","a","n","n","e","l"," ","6",")">>

\* "    Frequency:", a frequency field that is empty
ListFreqEmpty == <<" "," "," "," ","F","r","e","q","u","e","n","c","y",":">>

\* "    Frequency:unknown", a frequency that is not numeric
ListFreqBad == <<" "," "," "," ","F","r","e","q","u","e","n","c","y",":","u","n","k","n","o","w","n">>

\* "    Encryption key:on"
ListEncryption == <<" "," "," "," ","E","n","c","r","y","p","t","i","o","n"," ","k","e","y",":","o","n">>

\* "    IE: IEEE 802.11i/WPA2 Version 1"
ListWpa2 == <<" "," "," "," ","I","E",":"," ","I","E","E","E"," ","8","0","2",".","1","1","i","/","W","P","A","2"," ","V","e","r","s","i","o","n"," ","1">>

IwlistVocabulary ==
    {ListCellA, ListCellB, ListCellNoAddress, ListEssid, ListEssidHidden,
     ListSignal, ListSignalGlued, ListSignalEmpty, ListSignalBad,
     ListFreq, ListFreqEmpty, ListFreqBad, ListEncryption, ListWpa2}

\* the lines the classifier is tried on, beside those the parsers collect
SecWpa3 == <<"W","P","A","3","-","S","A","E">>

SecWps == <<"W","P","S",":"," ","*"," ","V","e","r","s","i","o","n",":"," ","1",".","0">>

SecNone == <<"A","u","t","h","e","n","t","i","c","a","t","i","o","n",":"," ","n","o","n","e">>

SecOther == <<"A","u","t","h","e","n","t","i","c","a","t","i","o","n"," ","S","u","i","t","e","s"," ","(","1",")"," ",":"," ","P","S","K">>

SecurityVocabulary ==
    {IwRsn, IwWpa, IwPrivacy, ListWpa2, ListEncryption, SecWpa3, SecWps, SecNone, SecOther,
     <<"G","r","o","u","p"," ","C","i","p","h","e","r"," ",":"," ","W","E","P","-","4","0">>}

\* sequences over S of length at most n
SeqsUpTo(S, n) == UNION {[1..k -> S] : k \in 0..n}

\* the longest text, in lines, that the parsers are tried on
MaxLines == 3

\* the longest collection of security lines the classifier is tried on
MaxSecurityLines == 3

\* the texts of at most MaxLines lines of a vocabulary
Texts(vocabulary) == {Join(ls, <<"\n">>) : ls \in SeqsUpTo(vocabulary, MaxLines)}

-----------------------------------------------------------------------------
(***************************************************************************)
(* The state machines                                                      *)
(***************************************************************************)

NotParsed == [kind |-> "none", access_points |-> <<>>, exc |-> "none"]

NotRun == [outcome |-> "not_run", stdout |-> <<>>]

NoResult == [kind |-> "none", success |-> FALSE, access_points |-> <<>>, error |-> "none"]

\* the values of the variables a specification does not use
DistIdle ==
    /\ signal_dbm = 0
    /\ frequency_mhz = 0
    /\ params = [path_loss_exponent10 |-> 20, reference_distance_cm |-> 100, reference_loss |-> 40]
    /\ signal_ranges = <<>>
    /\ freq_corrections = <<>>
    /\ distance = NotCalled

ClassIdle == sec_input = <<>> /\ sec_output = ""

ParseIdle == dialect = "iw" /\ raw_text = <<>> /\ parsed = NotParsed

ScanIdle ==
    /\ impl = "service"
    /\ scan_pc = "done"
    /\ interface = "wlan0"
    /\ available_interfaces = {}
    /\ iw_run = NotRun
    /\ iwlist_run = NotRun
    /\ commands = <<>>
    /\ scan_result = NoResult

ChanIdle == chan_frequency = 0 /\ chan_channel = -1

NotAnalyzed == [kind |-> "none"]

AnaIdle ==
    /\ analyzer = "engine"
    /\ ap_ssid = <<>>
    /\ ap_bssid = <<>>
    /\ ap_security = <<>>
    /\ ap_signal = 0
    /\ ap_frequency = 0
    /\ ap_channel = 0
    /\ security_profiles = <<>>
    /\ loaded_ranges = <<>>
    /\ threat_levels = <<>>
    /\ bssid_hash = 0
    /\ analysis = NotAnalyzed
    /\ built = <<>>

NoLevel == [level |-> "", color |-> ""]

ThrIdle ==
    /\ level_table = <<>>
    /\ score_lo = 0
    /\ score_hi = 0
    /\ level_lo = NoLevel
    /\ level_hi = NoLevel

EmptyConfigFile == [security_types |-> <<>>, signal_ranges |-> <<>>,
                    signal_strength_modifiers |-> <<>>, radar_modes |-> <<>>]

NotLookedUp == [looked |-> FALSE]

CfgIdle ==
    /\ config_file = EmptyConfigFile
    /\ old_file = EmptyConfigFile
    /\ mgr_config = EmptyConfigFile
    /\ mgr_profiles = <<>>
    /\ mgr_ranges = <<>>
    /\ mgr_modes = <<>>
    /\ reload_pc = "idle"
    /\ reload_todo = <<>>
    /\ reader_security = ""
    /\ reader_signal = 0
    /\ reader_profile = NotLookedUp
    /\ reader_range = NotLookedUp

\* uuid4 never repeats: a scan id is used once
MaxScans == 2

ScanIds == 1..MaxScans

\* no handler is running: the event loop waits for a request
LoopIdle == [op |-> "idle"]

\* start_scan has not answered
NoAnswer == [code |-> 0]

\* no cancellation, status or listing was asked for
NothingRead == [op |-> "none"]

ApiIdle ==
    /\ active_scans = [s \in ScanIds |-> "absent"]
    /\ service_interfaces = {}
    /\ plugged = {}
    /\ handler = LoopIdle
    /\ cancel_waiting = {}
    /\ cancelled_active = {}
    /\ scan_answer = [s \in ScanIds |-> NoAnswer]
    /\ last_answer = NothingRead

PollIdle ==
    /\ scanner_running = FALSE
    /\ thread_pc = "not_started"
    /\ stop_pc = "idle"
    /\ scan_left = 0
    /\ sleep_left = 0
    /\ wait_left = 0
    /\ cycles = 0
    /\ late_cycle = FALSE
    /\ late_signals = {}

\* every group but one at its idle values
NotDistIdle == ClassIdle /\ ParseIdle /\ ScanIdle /\ ChanIdle /\ AnaIdle /\ ThrIdle /\ CfgIdle /\ ApiIdle /\ PollIdle

NotClassIdle == DistIdle /\ ParseIdle /\ ScanIdle /\ ChanIdle /\ AnaIdle /\ ThrIdle /\ CfgIdle /\ ApiIdle /\ PollIdle

NotParseIdle == DistIdle /\ ClassIdle /\ ScanIdle /\ ChanIdle /\ AnaIdle /\ ThrIdle /\ CfgIdle /\ ApiIdle /\ PollIdle

NotScanIdle == DistIdle /\ ClassIdle /\ ParseIdle /\ ChanIdle /\ AnaIdle /\ ThrIdle /\ CfgIdle /\ ApiIdle /\ PollIdle

NotChanIdle == DistIdle /\ ClassIdle /\ ParseIdle /\ ScanIdle /\ AnaIdle /\ ThrIdle /\ CfgIdle /\ ApiIdle /\ PollIdle

NotAnaIdle == DistIdle /\ ClassIdle /\ ParseIdle /\ ScanIdle /\ ChanIdle /\ ThrIdle /\ CfgIdle /\ ApiIdle /\ PollIdle

NotThrIdle == DistIdle /\ ClassIdle /\ ParseIdle /\ ScanIdle /\ ChanIdle /\ AnaIdle /\ CfgIdle /\ ApiIdle /\ PollIdle

NotCfgIdle == DistIdle /\ ClassIdle /\ ParseIdle /\ ScanIdle /\ ChanIdle /\ AnaIdle /\ ThrIdle /\ ApiIdle /\ PollIdle

NotApiIdle == DistIdle /\ ClassIdle /\ ParseIdle /\ ScanIdle /\ ChanIdle /\ AnaIdle /\ ThrIdle /\ CfgIdle /\ PollIdle

NotPollIdle == DistIdle /\ ClassIdle /\ ParseIdle /\ ScanIdle /\ ChanIdle /\ AnaIdle /\ ThrIdle /\ CfgIdle /\ ApiIdle

(***************************************************************************)
(* The parsers on their own                                                *)
(***************************************************************************)

InitParse ==
    /\ NotParseIdle
    /\ dialect \in {"iw", "iwlist", "legacy_iw", "legacy_iwlist"}
    /\ raw_text \in Texts(IF dialect \in {"iw", "legacy_iw"}
                          THEN IwVocabulary ELSE IwlistVocabulary)
    /\ parsed = NotParsed

ParseIw ==
    /\ dialect = "iw" /\ parsed.kind = "none"
    /\ parsed' = Parsed(parse_iw_output(raw_text))
    /\ UNCHANGED <<dialect, raw_text, notParseVars>>

ParseIwlist ==
    /\ dialect = "iwlist" /\ parsed.kind = "none"
    /\ parsed' = parse_iwlist_output(raw_text)
    /\ UNCHANGED <<dialect, raw_text, notParseVars>>

LegacyParseIw ==
    /\ dialect = "legacy_iw" /\ parsed.kind = "none"
    /\ parsed' = Parsed(legacy_parse_iw_output(raw_text))
    /\ UNCHANGED <<dialect, raw_text, notParseVars>>

LegacyParseIwlist ==
    /\ dialect = "legacy_iwlist" /\ parsed.kind = "none"
    /\ parsed' = Parsed(legacy_parse_iwlist_output(raw_text))
    /\ UNCHANGED <<dialect, raw_text, notParseVars>>

NextParse == ParseIw \/ ParseIwlist \/ LegacyParseIw \/ LegacyParseIwlist

SpecParse == InitParse /\ [][NextParse]_vars

(***************************************************************************)
(* The classifier on its own                                               *)
(***************************************************************************)

InitClassify ==
    /\ NotClassIdle
    /\ sec_input \in SeqsUpTo(SecurityVocabulary, MaxSecurityLines)
    /\ sec_output = ""

DetermineSecurityType ==
    /\ sec_output = ""
    /\ sec_output' = determine_security_type(sec_input)
    /\ UNCHANGED <<sec_input, notClassVars>>

NextClassify == DetermineSecurityType

SpecClassify == InitClassify /\ [][NextClassify]_vars

(***************************************************************************)
(* calculate_distance on its own                                           *)
(***************************************************************************)

\* the signals tried: the documented range and a little beyond it, and two
\* far outliers that make the powers of ten overflow
SignalInputs == (-105..5) \cup {-6120, -6200}

\* the frequencies tried (MHz)
FrequencyInputs == {-5, 0, 1, 2412, 2437, 2484, 2500, 5000, 5180, 5825}

\* the configuration when config.json has no distance_calculation section:
\* the defaults of _calculate_log_normal_distance, and no tables
DefaultDistanceConfig ==
    [params |-> [path_loss_exponent10 |-> 20, reference_distance_cm |-> 100,
                 reference_loss |-> 40],
     signal_ranges |-> <<>>,
     freq_corrections |-> <<>>]

\* a configuration with both tables (multipliers in thousandths)
TableDistanceConfig ==
    [params |-> [path_loss_exponent10 |-> 30, reference_distance_cm |-> 100,
                 reference_loss |-> 40],
     signal_ranges |-> <<[min_dbm |-> -50, multiplier |-> 800, bonus |-> 20],
                         [min_dbm |-> -70, multiplier |-> 1000, bonus |-> 10],
                         [min_dbm |-> -90, multiplier |-> 1300, bonus |-> 0]>>,
     freq_corrections |-> <<[min |-> 2400, max |-> 2500, multiplier |-> 1000],
                            [min |-> 5000, max |-> 6000, multiplier |-> 1200]>>]

\* a configuration whose path-loss exponent is 0
ZeroExponentConfig ==
    [DefaultDistanceConfig EXCEPT !.params.path_loss_exponent10 = 0]

DistanceConfigs == {DefaultDistanceConfig, TableDistanceConfig, ZeroExponentConfig}

InitDistance ==
    /\ NotDistIdle
    /\ signal_dbm \in SignalInputs
    /\ frequency_mhz \in FrequencyInputs
    /\ \E c \in DistanceConfigs :
          /\ params = c.params
          /\ signal_ranges = c.signal_ranges
          /\ freq_corrections = c.freq_corrections
    /\ distance = NotCalled

CalculateDistance ==
    /\ distance = NotCalled
    /\ distance' = calculate_distance(signal_dbm, frequency_mhz, params,
                                      signal_ranges, freq_corrections)
    /\ UNCHANGED <<signal_dbm, frequency_mhz, params, signal_ranges, freq_corrections,
                   notDistVars>>

NextDistance == CalculateDistance

SpecDistance == InitDistance /\ [][NextDistance]_vars

(***************************************************************************)
(* scan_wifi: WiFiService.scan_wifi and the legacy scan_wifi               *)
(***************************************************************************)

\* the longest output, in lines, a scan command prints in the scan machine
MaxScanLines == 2

\* what `sudo iw dev <if> scan` prints when it exits 0
ScanIwTexts ==
    {Join(ls, <<"\n">>) : ls \in SeqsUpTo({IwBssA, IwBssB, IwSignal, IwFreq}, MaxScanLines)}

\* what `sudo iwlist <if> scan` prints when it exits 0
ScanIwlistTexts ==
    {Join(ls, <<"\n">>) :
        ls \in SeqsUpTo({ListCellA, ListCellNoAddress, ListSignal, ListSignalEmpty},
                        MaxScanLines)}

\* how subprocess.run / check_output can end other than with exit status 0:
\* a non-zero exit, TimeoutExpired, FileNotFoundError, PermissionError
CommandFailures == {"nonzero", "timeout", "not_found", "permission_error"}

Runs(texts) ==
    {[outcome |-> o, stdout |-> <<>>] : o \in CommandFailures}
    \cup {[outcome |-> "ok", stdout |-> t] : t \in texts}

\* the wireless interfaces get_interfaces finds on the machine
SystemWireless == {"wlan0"}

\* WiFiScanResult(success=True, access_points=aps)
ScanSuccess(aps) ==
    [kind |-> "returned", success |-> TRUE, access_points |-> aps, error |-> "none"]

\* WiFiScanResult(success=False, access_points=[], error_message=e)
ScanFailure(e) ==
    [kind |-> "returned", success |-> FALSE, access_points |-> <<>>, error |-> e]

\* the legacy scan_wifi returning its list of networks
LegacyReturned(networks) ==
    [kind |-> "returned", success |-> TRUE, access_points |-> networks, error |-> "none"]

\* an exception leaving the legacy scan_wifi
LegacyRaised(e) ==
    [kind |-> "raised", success |-> FALSE, access_points |-> <<>>, error |-> e]

\* the exception a failed run raises in Python
ExceptionOf(outcome) ==
    IF outcome = "timeout" THEN "TimeoutExpired"
    ELSE IF outcome = "not_found" THEN "FileNotFoundError"
    ELSE IF outcome = "permission_error" THEN "PermissionError"
    ELSE "CalledProcessError"

InitScan ==
    /\ NotScanIdle
    /\ impl \in {"service", "legacy"}
    /\ scan_pc = IF impl = "service" THEN "start" ELSE "iw"
    /\ interface \in (IF impl = "service" THEN {"wlan0", "eth0"} ELSE {"wlan0"})
    /\ available_interfaces \in (IF impl = "service" THEN {{}, SystemWireless} ELSE {{}})
    /\ iw_run = NotRun
    /\ iwlist_run = NotRun
    /\ commands = <<>>
    /\ scan_result = NoResult

\* WiFiService.scan_wifi up to the try block: the interface check, which
\* refreshes _available_interfaces through get_interfaces
ScanWifi ==
    /\ impl = "service" /\ scan_pc = "start"
    /\ IF interface \in available_interfaces
       THEN /\ scan_pc' = "iw"
            /\ UNCHANGED <<available_interfaces, scan_result>>
       ELSE /\ available_interfaces' = SystemWireless
            /\ IF interface \in SystemWireless
               THEN scan_pc' = "iw" /\ UNCHANGED scan_result
               ELSE /\ scan_pc' = "done"
                    /\ scan_result' = ScanFailure("not found or not wireless")
    /\ UNCHANGED <<impl, interface, iw_run, iwlist_run, commands,
                   notScanVars>>

\* _scan_with_iw: the list it returns; its except clause catches
\* TimeoutExpired, FileNotFoundError and SubprocessError
scan_with_iw(run) == IF run.outcome = "ok" THEN parse_iw_output(run.stdout) ELSE <<>>

\* scan_wifi after the primary command returned access_points
AfterIw(access_points) ==
    IF access_points # <<>>
    THEN /\ scan_result' = ScanSuccess(access_points)
         /\ scan_pc' = "done"
    ELSE /\ scan_pc' = "iwlist"
         /\ UNCHANGED scan_result

\* the primary command of WiFiService.scan_wifi; a PermissionError passes
\* _scan_with_iw and reaches the except clause of scan_wifi
ScanWithIw ==
    /\ impl = "service" /\ scan_pc = "iw"
    /\ \E run \in Runs(ScanIwTexts) :
          /\ iw_run' = run
          /\ commands' = Append(commands, "iw")
          /\ IF run.outcome = "permission_error"
             THEN /\ scan_result' = ScanFailure(ExceptionOf(run.outcome))
                  /\ scan_pc' = "done"
             ELSE AfterIw(scan_with_iw(run))
    /\ UNCHANGED <<impl, interface, available_interfaces, iwlist_run,
                   notScanVars>>

\* _scan_with_iwlist: what it returns or raises
scan_with_iwlist(run) ==
    IF run.outcome = "ok" THEN parse_iwlist_output(run.stdout) ELSE Parsed(<<>>)

\* the result scan_wifi builds from the secondary command
AfterIwlist(r) ==
    IF r.kind = "raise" THEN ScanFailure(r.exc) ELSE ScanSuccess(r.access_points)

\* the secondary command of WiFiService.scan_wifi, and its return
ScanWithIwlist ==
    /\ impl = "service" /\ scan_pc = "iwlist"
    /\ \E run \in Runs(ScanIwlistTexts) :
          /\ iwlist_run' = run
          /\ commands' = Append(commands, "iwlist")
          /\ scan_result' =
                IF run.outcome = "permission_error"
                THEN ScanFailure(ExceptionOf(run.outcome))
                ELSE AfterIwlist(scan_with_iwlist(run))
          /\ scan_pc' = "done"
    /\ UNCHANGED <<impl, interface, available_interfaces, iw_run,
                   notScanVars>>

\* the legacy scan_wifi: the outer try, which catches CalledProcessError and
\* TimeoutExpired only
LegacyScanIw ==
    /\ impl = "legacy" /\ scan_pc = "iw"
    /\ \E run \in Runs(ScanIwTexts) :
          /\ iw_run' = run
          /\ commands' = Append(commands, "iw")
          /\ IF run.outcome = "ok"
             THEN /\ scan_result' = LegacyReturned(legacy_parse_iw_output(run.stdout))
                  /\ scan_pc' = "done"
             ELSE IF run.outcome \in {"nonzero", "timeout"}
             THEN /\ scan_pc' = "iwlist"
                  /\ UNCHANGED scan_result
             ELSE /\ scan_result' = LegacyRaised(ExceptionOf(run.outcome))
                  /\ scan_pc' = "done"
    /\ UNCHANGED <<impl, interface, available_interfaces, iwlist_run,
                   notScanVars>>

\* the legacy scan_wifi: the inner try
LegacyScanIwlist ==
    /\ impl = "legacy" /\ scan_pc = "iwlist"
    /\ \E run \in Runs(ScanIwlistTexts) :
          /\ iwlist_run' = run
          /\ commands' = Append(commands, "iwlist")
          /\ scan_result' =
                IF run.outcome = "ok"
                THEN LegacyReturned(legacy_parse_iwlist_output(run.stdout))
                ELSE IF run.outcome \in {"nonzero", "timeout"}
                THEN LegacyReturned(<<>>)
                ELSE LegacyRaised(ExceptionOf(run.outcome))
          /\ scan_pc' = "done"
    /\ UNCHANGED <<impl, interface, available_interfaces, iw_run,
                   notScanVars>>

NextScan == ScanWifi \/ ScanWithIw \/ ScanWithIwlist \/ LegacyScanIw \/ LegacyScanIwlist

SpecScan == InitScan /\ [][NextScan]_vars

-----------------------------------------------------------------------------
(***************************************************************************)
(* The properties                                                          *)
(***************************************************************************)

\* C1: for every signal_dbm and frequency_mhz, calculate_distance returns a
\* value d with 0.5 <= d <= 2000.0 (50 to 200000 cm), whichever path
\* produced it: the weighted three-formula path or the fallback estimate.
C1_DistanceAlwaysClamped ==
    distance.kind # "none" =>
        /\ distance.kind = "value"
        /\ 50 <= distance.cm
        /\ distance.cm <= 200000

\* C2: a scan runs the secondary command (iwlist) exactly when the primary
\* command (iw) failed (non-zero exit, command not found or timeout), once;
\* when the primary command exits successfully nothing else is run, and no
\* command is run twice.
C2_SecondaryExactlyWhenPrimaryFailed ==
    scan_pc = "done" /\ iw_run.outcome # "not_run" =>
        commands = IF iw_run.outcome \in {"nonzero", "not_found", "timeout"}
                   THEN <<"iw", "iwlist">>
                   ELSE <<"iw">>

\* C3: when both the primary and the secondary command of WiFiService.scan_wifi
\* fail (timeout, command not found, permission denied or non-zero exit), the
\* scan returns a failure that carries the cause (the timeout when both timed
\* out) and an empty record list; it is never reported as successful.
C3_BothFailedIsFailure ==
    /\ impl = "service" /\ scan_pc = "done"
    /\ iw_run.outcome \in CommandFailures
    /\ iwlist_run.outcome \in CommandFailures
    => /\ scan_result.kind = "returned"
       /\ ~scan_result.success
       /\ scan_result.access_points = <<>>
       /\ scan_result.error # "none"
       /\ (iw_run.outcome = "timeout" /\ iwlist_run.outcome = "timeout"
             => scan_result.error = "TimeoutExpired")

\* some collected line carries the marker, whatever its case
HasMarker(lines, marker) == \E i \in DOMAIN lines : Contains(Lower(lines[i]), marker)

\* C4: the classifier applies one fixed precedence to the collected security
\* lines, case-insensitively: WPA3 markers beat WPA2/RSN markers, which beat
\* WPA markers, which beat WEP/Privacy markers, which beat WPS markers; an
\* empty collection or one with a "none" token is Open; anything else is
\* Unknown.  A collection with both an RSN and a WPA marker is WPA2.
C4_ClassifierPrecedence ==
    sec_output # "" =>
        /\ sec_output =
              IF HasMarker(sec_input, <<"w","p","a","3">>) THEN "WPA3"
              ELSE IF HasMarker(sec_input, <<"w","p","a","2">>) \/ HasMarker(sec_input, <<"r","s","n">>)
                   THEN "WPA2"
              ELSE IF HasMarker(sec_input, <<"w","p","a">>) THEN "WPA"
              ELSE IF HasMarker(sec_input, <<"w","e","p">>) \/ HasMarker(sec_input, <<"p","r","i","v","a","c","y">>)
                   THEN "WEP"
              ELSE IF HasMarker(sec_input, <<"w","p","s">>) THEN "WPS"
              ELSE IF sec_input = <<>> \/ HasMarker(sec_input, <<"n","o","n","e">>) THEN "Open"
              ELSE "Unknown"
        /\ (HasMarker(sec_input, <<"r","s","n">>) /\ ~HasMarker(sec_input, <<"w","p","a","3">>)
              => sec_output = "WPA2")

\* the classifier was given an RSN line and a bare WPA line, no WPA2 or WPA3
\* marker among them, and answered WPA2
C4_RsnAndWpaClassified ==
    /\ sec_output = "WPA2"
    /\ \E i \in DOMAIN sec_input : sec_input[i] = IwRsn
    /\ \E i \in DOMAIN sec_input : sec_input[i] = IwWpa
    /\ ~HasMarker(sec_input, <<"w","p","a","2">>)
    /\ ~HasMarker(sec_input, <<"w","p","a","3">>)

\* the lines of the text the parser was given
RawLines == SplitOn(raw_text, <<"\n">>)

\* the line opens a block: "BSS ..." for iw, "Cell .. Address: .." for iwlist
IsHead(d, line) ==
    IF d \in {"iw", "legacy_iw"}
    THEN StartsWith(Strip(line), <<"B","S","S"," ">>)
    ELSE Contains(line, <<"A","d","d","r","e","s","s",":">>) /\ Contains(line, <<"C","e","l","l">>)

\* the hardware address a head line carries, <<>> when it carries none
HeadAddress(line) == mac_pattern_search(line)

\* six colon-separated octets of two upper-case hex digits
IsUpperMac(b) ==
    /\ Len(b) = 17
    /\ \A k \in 1..17 :
          IF k % 3 = 0 THEN b[k] = ":"
          ELSE IsDigit(b[k]) \/ b[k] \in {"A", "B", "C", "D", "E", "F"}

\* the lines without the blocks whose head carries no address; dropping
\* says that the line before belonged to such a block
RECURSIVE WithoutBssidlessBlocks(_, _, _)
WithoutBssidlessBlocks(d, lines, dropping) ==
    IF lines = <<>> THEN <<>>
    ELSE IF IsHead(d, Head(lines))
    THEN IF HeadAddress(Head(lines)) = <<>>
         THEN WithoutBssidlessBlocks(d, Tail(lines), TRUE)
         ELSE <<Head(lines)>> \o WithoutBssidlessBlocks(d, Tail(lines), FALSE)
    ELSE IF dropping THEN WithoutBssidlessBlocks(d, Tail(lines), TRUE)
    ELSE <<Head(lines)>> \o WithoutBssidlessBlocks(d, Tail(lines), FALSE)

\* the parser of WiFiService for the dialect
ServiceParse(d, text) ==
    IF d = "iw" THEN Parsed(parse_iw_output(text)) ELSE parse_iwlist_output(text)

\* the text is one block: a head with an address, then lines that are no heads
SingleBlock ==
    /\ RawLines # <<>>
    /\ IsHead(dialect, RawLines[1])
    /\ HeadAddress(RawLines[1]) # <<>>
    /\ \A i \in 2..Len(RawLines) : ~IsHead(dialect, RawLines[i])

\* a line that carries a signal field, or a frequency field
IsSignalLine(line) == Contains(line, <<"s","i","g","n","a","l",":">>) \/ Contains(line, <<"S","i","g","n","a","l"," ","l","e","v","e","l","=">>)

IsFrequencyLine(line) == Contains(line, <<"f","r","e","q",":">>) \/ Contains(line, <<"F","r","e","q","u","e","n","c","y",":">>)

\* a signal or frequency field that is present but empty or not numeric
MalformedLines ==
    {IwSignalBad, IwFreqEmpty, ListSignalEmpty, ListSignalBad, ListFreqEmpty, ListFreqBad}

\* C5: parsing an iw block that contains an RSN marker line and a WPA marker
\* line yields a record whose security is WPA2: every security-marker line
\* of the block reaches the classifier.
C5_RsnAndWpaBlockIsWpa2 ==
    /\ dialect = "iw" /\ parsed.kind # "none"
    /\ SingleBlock
    /\ \E i \in DOMAIN RawLines : RawLines[i] = IwRsn
    /\ \E i \in DOMAIN RawLines : RawLines[i] = IwWpa
    => /\ parsed.kind = "value"
       /\ Len(parsed.access_points) = 1
       /\ parsed.access_points[1].security = "WPA2"

\* C6: a block that has no valid BSSID yields no record, raises no error and
\* changes no other record: in both dialects of WiFiService the records are
\* those of the text without the BSSID-less block.  (Checked on texts whose
\* signal and frequency fields are well formed.)
C6_BssidlessBlockIgnored ==
    /\ dialect \in {"iw", "iwlist"} /\ parsed.kind # "none"
    /\ \E i \in DOMAIN RawLines :
          IsHead(dialect, RawLines[i]) /\ HeadAddress(RawLines[i]) = <<>>
    /\ \A i \in DOMAIN RawLines : RawLines[i] \notin MalformedLines
    => /\ parsed.kind = "value"
       /\ parsed = ServiceParse(dialect,
                       Join(WithoutBssidlessBlocks(dialect, RawLines, FALSE), <<"\n">>))

\* C7: no two records of one scan result share a BSSID: of several blocks
\* with the same BSSID only one record is kept.  (Checked on texts whose
\* every block head carries a hardware address.)
C7_NoDuplicateBssid ==
    /\ dialect \in {"iw", "iwlist"} /\ parsed.kind = "value"
    /\ \A i \in DOMAIN RawLines :
          IsHead(dialect, RawLines[i]) => HeadAddress(RawLines[i]) # <<>>
    =>
        \A i, j \in DOMAIN parsed.access_points :
            i # j => parsed.access_points[i].bssid # parsed.access_points[j].bssid

\* C8: the bssid of every emitted record is exactly six colon-separated
\* two-hex-digit octets in upper case.
C8_BssidIsUpperCaseMac ==
    dialect \in {"iw", "iwlist"} /\ parsed.kind = "value" =>
        \A i \in DOMAIN parsed.access_points : IsUpperMac(parsed.access_points[i].bssid)

\* C9: a block that has a BSSID but no signal line or no frequency line still
\* yields a record, with signal -100 dBm when the signal is missing and with
\* frequency 0 and no channel when the frequency is missing, in WiFiService
\* and in the legacy parse_iw_output.
C9_PartialBlockKeptWithDefaults ==
    /\ dialect \in {"iw", "iwlist", "legacy_iw"} /\ parsed.kind # "none"
    /\ SingleBlock
    /\ \A i \in DOMAIN RawLines : RawLines[i] \notin MalformedLines
    => /\ parsed.kind = "value"
       /\ Len(parsed.access_points) = 1
       /\ ((\A i \in DOMAIN RawLines : ~IsSignalLine(RawLines[i]))
             => IF dialect = "legacy_iw"
                THEN parsed.access_points[1].signal = -100000
                ELSE parsed.access_points[1].signal_dbm = -100000)
       /\ ((\A i \in DOMAIN RawLines : ~IsFrequencyLine(RawLines[i]))
             => /\ parsed.access_points[1].frequency = 0
                /\ parsed.access_points[1].channel = 0)

\* the lines without those whose signal or frequency field is malformed
WithoutMalformed(lines) == SelectSeq(lines, LAMBDA l : l \notin MalformedLines)

\* C10: a signal or frequency field that is present but empty or not numeric
\* is treated as missing: the parser raises nothing and yields the records
\* of the text without that field.
C10_MalformedFieldIsMissing ==
    /\ dialect \in {"iw", "iwlist"} /\ parsed.kind # "none"
    /\ \E i \in DOMAIN RawLines : RawLines[i] \in MalformedLines
    => /\ parsed.kind = "value"
       /\ parsed = ServiceParse(dialect, Join(WithoutMalformed(RawLines), <<"\n">>))

\* the confidence of a record built from a block that has every field
CompleteBlockConfidence ==
    create_access_point([NewAp(<<"A","A",":","B","B",":","C","C",":","D","D",":","E","E",":","F","F">>) EXCEPT
                            !.has_ssid = TRUE, !.ssid = <<"T","e","s","t","N","e","t">>,
                            !.has_signal = TRUE, !.signal_dbm = -45000,
                            !.has_frequency = TRUE, !.frequency = 2437])[1].confidence

\* C11: a record built from a block whose signal or frequency was missing
\* and defaulted carries a strictly lower confidence than a record built
\* from a block in which both fields were present.
C11_DefaultedFieldLowersConfidence ==
    /\ dialect \in {"iw", "iwlist"} /\ parsed.kind = "value"
    /\ SingleBlock
    /\ Len(parsed.access_points) = 1
    /\ \/ \A i \in DOMAIN RawLines : ~IsSignalLine(RawLines[i])
       \/ \A i \in DOMAIN RawLines : ~IsFrequencyLine(RawLines[i])
    => parsed.access_points[1].confidence < CompleteBlockConfidence

(***************************************************************************)
(* _frequency_to_channel on its own                                        *)
(***************************************************************************)

\* the highest frequency (MHz) the mapping is tried on
MaxFrequency == 6000

InitChannel ==
    /\ NotChanIdle
    /\ chan_frequency \in 0..MaxFrequency
    /\ chan_channel = -1

FrequencyToChannel ==
    /\ chan_channel = -1
    /\ chan_channel' = frequency_to_channel(chan_frequency)
    /\ UNCHANGED <<chan_frequency, notChanVars>>

NextChannel == FrequencyToChannel

SpecChannel == InitChannel /\ [][NextChannel]_vars

\* C12: the mapping sends every frequency in 2412..2484 MHz to a channel in
\* 1..13 by steps of 5 MHz, with 2484 as the single frequency that maps to
\* 14; every frequency in 5170..5825 MHz to (freq-5000) integer-divided by
\* 5; and every other frequency, 0 and 2500 included, to unknown (0).
\* channel(2412)=1, channel(2462)=11, channel(2484)=14, channel(5180)=36.
C12_FrequencyToChannel ==
    chan_channel # -1 =>
        /\ (2412 <= chan_frequency /\ chan_frequency < 2484
              => /\ chan_channel \in 1..13
                 /\ chan_channel = ((chan_frequency - 2412) \div 5) + 1)
        /\ (chan_channel = 14 <=> chan_frequency = 2484)
        /\ (5170 <= chan_frequency /\ chan_frequency <= 5825
              => chan_channel = (chan_frequency - 5000) \div 5)
        /\ (chan_frequency < 2412 \/ (2484 < chan_frequency /\ chan_frequency < 5170)
              \/ chan_frequency > 5825
              => chan_channel = 0)
        /\ (chan_frequency = 2412 => chan_channel = 1)
        /\ (chan_frequency = 2462 => chan_channel = 11)
        /\ (chan_frequency = 5180 => chan_channel = 36)

-----------------------------------------------------------------------------
(***************************************************************************)
(* The security analysis engine (security_engine.py) over the tables of    *)
(* the configuration manager.  Messages are strings, a message with an     *)
(* interpolated value is a record of its text and the value.  Signals are  *)
(* whole dBm; confidence is in hundredths.                                 *)
(***************************************************************************)

IsLetter(c) == c \in Range(LowerChars) \cup Range(UpperChars)

\* re.search of ^(w1|w2|...)$ : the whole text, a final newline allowed
SearchWholeWord(s, words) ==
    \/ s \in words
    \/ Len(s) > 0 /\ s[Len(s)] = "\n" /\ SubSeq(s, 1, Len(s) - 1) \in words

\* re.search of (w1|w2|...)
SearchAnyWord(s, words) == \E w \in words : Contains(s, w)

\* ssid_patterns['default_names']
DefaultNames ==
    {<<"d","e","f","a","u","l","t">>, <<"a","d","m","i","n">>, <<"r","o","u","t","e","r">>, <<"r","o","o","t">>,
     <<"l","i","n","k","s","y","s">>, <<"n","e","t","g","e","a","r">>, <<"d","l","i","n","k">>, <<"t","p","l","i","n","k">>, <<"a","s","u","s">>,
     <<"b","e","l","k","i","n">>, <<"z","y","x","e","l">>, <<"h","u","a","w","e","i">>, <<"m","o","t","o","r","o","l","a">>,
     <<"w","i","f","i">>, <<"w","i","r","e","l","e","s","s">>, <<"i","n","t","e","r","n","e","t">>, <<"b","r","o","a","d","b","a","n","d">>}

matches_default_names(ssid_lower) == SearchWholeWord(ssid_lower, DefaultNames)

\* ssid_patterns['weak_patterns']
matches_weak_patterns(ssid_lower) ==
    \/ SearchWholeWord(ssid_lower, {<<"t","e","s","t">>, <<"t","e","m","p">>, <<"g","u","e","s","t">>, <<"p","u","b","l","i","c">>})
    \/ SearchWholeWord(ssid_lower, {<<"p","a","s","s","w","o","r","d">>, <<"1","2","3","4","5","6">>, <<"a","d","m","i","n">>})
    \/ SearchAnyWord(ssid_lower, {<<"p","h","o","n","e">>, <<"m","o","b","i","l","e">>, <<"i","p","h","o","n","e">>, <<"a","n","d","r","o","i","d">>})
    \/ SearchAnyWord(ssid_lower, {<<"p","e","r","s","o","n","a","l">>, <<"p","r","i","v","a","t","e">>, <<"h","o","m","e">>})

\* ssid_patterns['personal_info']
matches_personal_info(ssid_lower) ==
    \/ \E i \in 1..(Len(ssid_lower) - 2) :
          IsDigit(ssid_lower[i]) /\ IsDigit(ssid_lower[i + 1]) /\ IsDigit(ssid_lower[i + 2])
    \/ SearchAnyWord(ssid_lower, {<<"f","a","m","i","l","y">>, <<"h","o","u","s","e">>, <<"a","p","a","r","t","m","e","n","t">>, <<"a","p","t">>})
    \/ SearchAnyWord(ssid_lower, {<<"s","t","r","e","e","t">>, <<"r","o","a","d">>, <<"a","v","e">>, <<"a","v","e","n","u","e">>, <<"b","l","v","d">>})
    \/ \E i \in DOMAIN ssid_lower :
          /\ IsLetter(ssid_lower[i])
          /\ SkipSpaces(ssid_lower, i + 1) <= Len(ssid_lower)
          /\ IsDigit(ssid_lower[SkipSpaces(ssid_lower, i + 1)])

\* the character class [!@#$%^&*()_+\-=\[\]{}|;:,.<>?]
SpecialChars ==
    {"!", "@", "#", "$", "%", "^", "&", "*", "(", ")", "_", "+", "-", "=",
     "[", "]", "{", "}", "|", ";", ":", ",", ".", "<", ">", "?"}

Message(text) == [text |-> text, arg |-> <<>>]

MessageWith(text, value) == [text |-> text, arg |-> value]

\* not ssid or ssid.lower() in ['hidden', '']
IsHiddenSsid(ssid) == ssid = <<>> \/ Lower(ssid) = <<"h","i","d","d","e","n">>

\* ConfigurationManager.get_threat_level_for_score: sorted(..., reverse=True)
\* is stable, so of two entries with one minimum the earlier stays first
RECURSIVE sorted_by_min_descending(_)
sorted_by_min_descending(levels) ==
    IF levels = <<>> THEN <<>>
    ELSE LET top == CHOOSE i \in DOMAIN levels :
                       /\ \A j \in DOMAIN levels : levels[j].min <= levels[i].min
                       /\ \A j \in 1..(i - 1) : levels[j].min < levels[i].min
         IN  <<levels[top]>> \o
             sorted_by_min_descending(SubSeq(levels, 1, top - 1) \o
                                      SubSeq(levels, top + 1, Len(levels)))

\* the lookup without the sort: the thresholds tried in the table's order
get_threat_level_unsorted(levels, score) ==
    LET hits == {i \in DOMAIN levels : score >= levels[i].min}
    IN  IF hits = {} THEN [level |-> "LOW", color |-> "#88ff88"]
        ELSE LET first == CHOOSE i \in hits : \A j \in hits : i <= j
             IN  [level |-> levels[first].level, color |-> levels[first].color]

\* get_threat_level_for_score: the first threshold, from the highest minimum
\* down, that the score reaches; ("LOW", "#88ff88") when it reaches none
get_threat_level_for_score(levels, score) ==
    LET tried == sorted_by_min_descending(levels)
        hits == {i \in DOMAIN tried : score >= tried[i].min}
    IN  IF hits = {} THEN [level |-> "LOW", color |-> "#88ff88"]
        ELSE LET first == CHOOSE i \in hits : \A j \in hits : i <= j
             IN  [level |-> tried[first].level, color |-> tried[first].color]

\* _analyze_signal_strength
analyze_signal_strength(ranges, s) ==
    LET r == get_signal_range_info(ranges, s)
    IN  [bonus |-> IF r # 0 THEN ranges[r].bonus ELSE 0,
         factors |-> <<Message(
            IF s > -30 THEN "Excellent signal strength - highly accessible"
            ELSE IF s > -50 THEN "Good signal strength - easily accessible"
            ELSE IF s > -70 THEN "Fair signal strength - accessible with positioning"
            ELSE IF s > -80 THEN "Poor signal strength - requires proximity"
            ELSE "Very poor signal strength - limited accessibility")>>]

\* _analyze_ssid
analyze_ssid(ssid) ==
    IF IsHiddenSsid(ssid)
    THEN [bonus |-> 5,
          factors |-> <<Message("Hidden SSID (minor security through obscurity)")>>,
          recommendations |-> <<"Consider using a descriptive but non-personal SSID">>]
    ELSE LET ssid_lower == Lower(ssid)
             default == matches_default_names(ssid_lower)
             weak == matches_weak_patterns(ssid_lower)
             personal == matches_personal_info(ssid_lower)
             special == \E i \in DOMAIN ssid : ssid[i] \in SpecialChars
         IN  [bonus |-> (IF default THEN 15 ELSE 0) + (IF weak THEN 10 ELSE 0)
                        + (IF personal THEN 8 ELSE 0) + (IF Len(ssid) < 3 THEN 5 ELSE 0)
                        - (IF special THEN 2 ELSE 0),
              factors |->
                 (IF default THEN <<MessageWith("Default/common SSID name detected: ", ssid)>>
                  ELSE <<>>)
                 \o (IF weak THEN <<Message("Weak SSID pattern detected")>> ELSE <<>>)
                 \o (IF personal THEN <<Message("SSID may contain personal information")>>
                     ELSE <<>>)
                 \o (IF Len(ssid) < 3 THEN <<Message("Very short SSID")>>
                     ELSE IF Len(ssid) > 32 THEN <<Message("SSID exceeds standard length")>>
                     ELSE <<>>)
                 \o (IF special THEN <<Message("SSID contains special characters")>> ELSE <<>>),
              recommendations |->
                 (IF default THEN <<"Change SSID from default router name">> ELSE <<>>)
                 \o (IF weak THEN <<"Use a unique, non-obvious SSID name">> ELSE <<>>)
                 \o (IF personal THEN <<"Avoid personal information in SSID">> ELSE <<>>)]

\* _analyze_frequency
analyze_frequency(f) ==
    IF 2400 <= f /\ f <= 2500
    THEN <<Message("2.4 GHz band - longer range, more interference")>>
    ELSE IF 5000 <= f /\ f <= 6000
    THEN <<Message("5 GHz band - shorter range, less congested")>>
    ELSE IF f > 6000
    THEN <<Message("6 GHz band - latest standard, limited device support")>>
    ELSE <<MessageWith("Unusual frequency: ", f)>>

\* _analyze_bssid
analyze_bssid(bssid) ==
    IF bssid = <<>> \/ bssid = <<"U","n","k","n","o","w","n">> THEN <<>>
    ELSE LET octets == SplitOn(bssid, <<":">>)
         IN  IF Len(octets) # 6 THEN <<>>
             ELSE (IF octets[1] = <<"0","0">> /\ octets[2] = <<"0","0">> /\ octets[3] = <<"0","0">>
                   THEN <<Message("BSSID suggests default configuration")>> ELSE <<>>)
                  \o (IF octets[4] = octets[5] /\ octets[5] = octets[6]
                      THEN <<Message("BSSID shows repetitive pattern")>> ELSE <<>>)

\* _get_additional_attack_vectors
get_additional_attack_vectors(security, s, ssid) ==
    (IF s > -40
     THEN <<"Physical proximity attacks", "RF jamming attacks", "Rogue AP setup">>
     ELSE <<>>)
    \o (IF security \in {<<"O","p","e","n">>, <<"W","E","P">>} /\ s > -60
        THEN <<"Wardriving attacks", "Passive monitoring", "Session hijacking">>
        ELSE <<>>)
    \o (IF matches_default_names(Lower(ssid))
        THEN <<"Default credential attacks", "Firmware vulnerability exploitation",
               "Router management interface attacks">>
        ELSE <<>>)
    \o (IF security \in {<<"W","P","A">>, <<"W","P","A","2">>}
        THEN <<"WPS PIN brute force", "Pixie Dust attack">>
        ELSE <<>>)

\* _get_security_recommendations
get_security_recommendations(security, s) ==
    (IF security = <<"O","p","e","n">>
     THEN <<"Enable WPA3 or WPA2 encryption immediately",
            "Use a strong, unique password",
            "Consider MAC address filtering for sensitive networks">>
     ELSE IF security = <<"W","E","P">>
     THEN <<"Upgrade to WPA3 or WPA2 immediately",
            "WEP is easily crackable and should never be used",
            "Update router firmware to support modern security">>
     ELSE IF security = <<"W","P","A">>
     THEN <<"Upgrade to WPA3 or WPA2 for better security",
            "Use a strong passphrase (12+ characters)",
            "Disable WPS if not needed">>
     ELSE IF security = <<"W","P","A","2">>
     THEN <<"Consider upgrading to WPA3 if supported",
            "Use a strong passphrase (15+ characters)",
            "Disable WPS to prevent PIN attacks",
            "Enable 802.11w (Management Frame Protection)">>
     ELSE IF security = <<"W","P","A","3">>
     THEN <<"Excellent security choice",
            "Ensure all devices support WPA3",
            "Use SAE (Simultaneous Authentication of Equals)">>
     ELSE <<>>)
    \o (IF s > -30 THEN <<"Consider reducing transmit power to limit range">> ELSE <<>>)
    \o <<"Change default router admin credentials",
         "Keep router firmware updated",
         "Disable unnecessary services (Telnet, SSH, UPnP)",
         "Enable router firewall",
         "Use guest network for visitors",
         "Monitor connected devices regularly">>

\* _calculate_confidence, in hundredths
calculate_confidence(s, ssid, security) ==
    Min(100, 50 + (IF s > -50 THEN 30 ELSE IF s > -70 THEN 20 ELSE IF s > -85 THEN 10 ELSE 0)
                + (IF ~IsHiddenSsid(ssid) THEN 15 ELSE 0)
                + (IF security # <<>> /\ security # <<"U","n","k","n","o","w","n">> THEN 15 ELSE 0))

\* the elements of a list, each once, in the order of first occurrence
FirstOccurrences(list) ==
    SelectSeq([i \in DOMAIN list |-> IF \E j \in 1..(i - 1) : list[j] = list[i]
                                     THEN "" ELSE list[i]],
              LAMBDA v : v # "")

\* list(set(vectors)): every element once, in the iteration order of a set of
\* strings, which depends on the hash seed of the process; three of the
\* orders that occur
SetOrders == {"insertion", "reversed", "rotated"}

list_of_set(list, order) ==
    LET d == FirstOccurrences(list)
    IN  IF order = "insertion" \/ Len(d) < 2 THEN d
        ELSE IF order = "reversed" THEN [i \in DOMAIN d |-> d[Len(d) + 1 - i]]
        ELSE Tail(d) \o <<Head(d)>>

\* the score before line 109 normalises it
raw_score(profile, ranges, ssid, s) ==
    profile.base_score + analyze_signal_strength(ranges, s).bonus + analyze_ssid(ssid).bonus

\* the normalisation without its lower bound
normalize_score_upper_only(base_score) == Min(100, base_score)

\* max(0, min(100, base_score))
normalize_score(base_score) == Max(0, Min(100, base_score))

AnalysisRaised(e) == [kind |-> "raise", exc |-> e]

\* analyze_access_point with the profile already looked up
analyze_with_profile(profile, ranges, levels, ssid, bssid, security, s, f, order) ==
    LET final_score == normalize_score(raw_score(profile, ranges, ssid, s))
        threat == get_threat_level_for_score(levels, final_score)
    IN  [kind |-> "value",
         vulnerability_score |-> final_score,
         threat_level |-> threat.level,
         threat_color |-> threat.color,
         attack_vectors |->
             list_of_set(profile.attack_vectors
                         \o get_additional_attack_vectors(security, s, ssid), order),
         risk_factors |->
             <<MessageWith("Security type: ", security)>>
             \o analyze_signal_strength(ranges, s).factors
             \o analyze_ssid(ssid).factors
             \o analyze_frequency(f)
             \o analyze_bssid(bssid),
         recommendations |->
             analyze_ssid(ssid).recommendations \o get_security_recommendations(security, s),
         confidence |-> calculate_confidence(s, ssid, security)]

\* analyze_access_point: the profile of the security type, else the WPA2
\* profile; with neither, security_profile is None and line 72 raises
analyze_access_point(profiles, ranges, levels, ssid, bssid, security, s, f, order) ==
    IF security \in DOMAIN profiles
    THEN analyze_with_profile(profiles[security], ranges, levels, ssid, bssid, security,
                              s, f, order)
    ELSE IF <<"W","P","A","2">> \in DOMAIN profiles
    THEN analyze_with_profile(profiles[<<"W","P","A","2">>], ranges, levels, ssid, bssid, security,
                              s, f, order)
    ELSE AnalysisRaised("AttributeError")


-----------------------------------------------------------------------------
(***************************************************************************)
(* The legacy AccessPoint dataclass (wifi_radar_nav_enhanced.py).          *)
(* Distances are in 1/10000 m, angles in tenths of a degree.  last_seen is *)
(* left out of the record.                                                 *)
(***************************************************************************)

\* the OUI table of _analyze_vendor
Vendors ==
    <<
      <<<<"D","4","C","A","6","D">>, "ASUS">>, <<<<"7","0","4","D","7","B">>, "ASUS">>, <<<<"1","C","B","7","2","C">>, "ASUS">>,
      <<<<"2","C","5","6","D","C">>, "ASUS">>, <<<<"9","0","F","6","5","2">>, "ASUS">>, <<<<"A","C","2","2","0","B">>, "ASUS">>,
      <<<<"0","C","9","D","9","2">>, "ASUS">>, <<<<"5","0","4","6","5","D">>, "ASUS">>, <<<<"0","0","1","3","C","4">>, "Cisco">>,
      <<<<"0","0","1","D","E","5">>, "Cisco">>, <<<<"0","0","2","6","4","A">>, "Cisco">>, <<<<"6","8","B","D","1","5">>, "Cisco">>,
      <<<<"6","8","E","F","4","3">>, "Linksys">>, <<<<"F","0","B","4","D","2">>, "Linksys">>, <<<<"2","4","A","4","3","C">>, "Linksys">>,
      <<<<"2","0","A","A","4","B">>, "Linksys">>, <<<<"E","C","F","4","B","B">>, "TP-Link">>, <<<<"9","C","5","3","C","D">>, "TP-Link">>,
      <<<<"E","8","D","E","2","7">>, "TP-Link">>, <<<<"C","0","5","3","2","6">>, "TP-Link">>, <<<<"1","4","C","C","2","0">>, "TP-Link">>,
      <<<<"0","C","8","0","6","6">>, "TP-Link">>, <<<<"8","4","3","4","9","7">>, "TP-Link">>, <<<<"7","4","8","E","E","8">>, "TP-Link">>,
      <<<<"9","C","B","7","0","D">>, "Netgear">>, <<<<"A","0","2","1","B","7">>, "Netgear">>, <<<<"0","8","4","6","A","0">>, "Netgear">>,
      <<<<"2","C","3","0","3","3">>, "Netgear">>, <<<<"C","C","4","0","D","0">>, "Netgear">>, <<<<"8","4","D","6","D","0">>, "Netgear">>,
      <<<<"4","C","F","9","5","2">>, "Netgear">>, <<<<"0","4","B","F","6","D">>, "Netgear">>, <<<<"B","0","4","8","7","A">>, "D-Link">>,
      <<<<"C","C","D","C","0","2">>, "D-Link">>, <<<<"1","4","2","D","2","7">>, "D-Link">>, <<<<"E","4","6","F","1","3">>, "D-Link">>,
      <<<<"5","C","D","9","9","8">>, "D-Link">>, <<<<"E","0","0","5","1","E">>, "D-Link">>, <<<<"C","8","B","E","1","9">>, "D-Link">>,
      <<<<"B","C","5","F","F","4">>, "D-Link">>, <<<<"8","8","6","3","D","F">>, "Apple">>, <<<<"0","4","1","E","6","4">>, "Apple">>,
      <<<<"0","4","E","5","3","6">>, "Apple">>, <<<<"6","8","A","B","1","E">>, "Apple">>, <<<<"D","8","9","6","9","5">>, "Apple">>,
      <<<<"A","8","5","C","2","C">>, "Apple">>, <<<<"7","C","6","D","6","2">>, "Apple">>, <<<<"0","0","5","6","C","D">>, "Apple">>,
      <<<<"0","0","A","0","C","9">>, "Intel">>, <<<<"0","0","1","F","3","F">>, "Intel">>, <<<<"0","0","2","4","D","7">>, "Intel">>,
      <<<<"8","C","7","0","5","A">>, "Intel">>, <<<<"0","0","2","4","5","4">>, "Samsung">>, <<<<"0","0","1","4","8","5">>, "Samsung">>,
      <<<<"1","C","2","3","2","C">>, "Samsung">>, <<<<"C","8","F","7","3","3">>, "Samsung">>
    >>

\* _analyze_vendor
analyze_vendor(bssid) ==
    LET stripped == Upper(Join(SplitOn(bssid, <<":">>), <<>>))
        oui == SubSeq(stripped, 1, Min(6, Len(stripped)))
        hits == {i \in DOMAIN Vendors : Vendors[i][1] = oui}
    IN  IF hits = {} THEN "Unknown" ELSE Vendors[CHOOSE i \in hits : TRUE][2]

\* the two ends of random.uniform(0.8, 1.2), in thousandths
JitterFactors == {800, 1200}

\* _calculate_distance: a piecewise distance, times the random factor,
\* clamped to [1.0, 150.0]
legacy_calculate_distance(s, factor) ==
    LET tenths == IF s >= -30 THEN 10
                  ELSE IF s >= -50 THEN 50 + (-30 - s) * 3
                  ELSE IF s >= -70 THEN 150 + (-50 - s) * 8
                  ELSE IF s >= -85 THEN 350 + (-70 - s) * 20
                  ELSE 650 + (-85 - s) * 30
    IN  Max(10000, Min(1500000, tenths * factor))

\* _calculate_angle, from hash(bssid) % 360 in this process
legacy_calculate_angle(hash_degrees, channel) == (hash_degrees * 10 + channel * 137) % 3600

\* the protocol branch of _analyze_security
legacy_protocol(security) ==
    LET security_lower == Lower(security)
    IN  IF Contains(security_lower, <<"o","p","e","n">>) \/ security = <<>>
        THEN [base_score |-> 95, is_vulnerable |-> TRUE,
              encryption_details |-> "No encryption",
              attack_vectors |-> <<"Direct network access",
                                   "Traffic interception and analysis",
                                   "Man-in-the-middle attacks",
                                   "Packet injection and manipulation",
                                   "DNS spoofing and redirection",
                                   "Evil twin access point setup",
                                   "Session hijacking",
                                   "Credential harvesting">>]
        ELSE IF Contains(security_lower, <<"w","e","p">>)
        THEN [base_score |-> 88, is_vulnerable |-> TRUE,
              encryption_details |-> "WEP (Broken encryption)",
              attack_vectors |-> <<"WEP key cracking (aircrack-ng)",
                                   "IV collision attacks",
                                   "Chopchop attack",
                                   "Fragmentation attack",
                                   "Fake authentication bypass",
                                   "Statistical cryptanalysis",
                                   "Korek attacks",
                                   "PTW attack method">>]
        ELSE IF Contains(security_lower, <<"w","p","a","3">>)
        THEN [base_score |-> 15, is_vulnerable |-> FALSE,
              encryption_details |-> "WPA3 (Latest security)",
              attack_vectors |-> <<"SAE downgrade attacks",
                                   "Implementation vulnerabilities",
                                   "Side-channel timing attacks",
                                   "Dragonfly handshake analysis">>]
        ELSE IF Contains(security_lower, <<"w","p","a","2">>)
        THEN [base_score |-> 35, is_vulnerable |-> FALSE,
              encryption_details |-> "WPA2",
              attack_vectors |-> <<"4-way handshake capture",
                                   "Dictionary and wordlist attacks",
                                   "Brute force password cracking",
                                   "PMKID attack (hashcat)",
                                   "Deauthentication attacks",
                                   "WPS PIN cracking (if enabled)",
                                   "KRACK vulnerability exploitation">>]
        ELSE IF Contains(security_lower, <<"w","p","a">>)
        THEN [base_score |-> 45, is_vulnerable |-> FALSE,
              encryption_details |-> "WPA (Legacy)",
              attack_vectors |-> <<"4-way handshake capture",
                                   "Dictionary attacks",
                                   "WPA-PSK cracking",
                                   "Deauthentication attacks",
                                   "Beck-Tews attack",
                                   "Chopchop variations">>]
        ELSE [base_score |-> 0, is_vulnerable |-> FALSE, encryption_details |-> "",
              attack_vectors |-> <<>>]

\* weak_indicators, in the order of the list
WeakIndicators ==
    <<[indicator |-> <<"t","e","s","t">>, score_bonus |-> 15, description |-> "Test network - likely insecure"],
      [indicator |-> <<"g","u","e","s","t">>, score_bonus |-> 12, description |-> "Guest network - reduced security"],
      [indicator |-> <<"p","u","b","l","i","c">>, score_bonus |-> 18, description |-> "Public network - high risk"],
      [indicator |-> <<"f","r","e","e">>, score_bonus |-> 20, description |-> "Free network - likely open"],
      [indicator |-> <<"a","d","m","i","n">>, score_bonus |-> 10, description |-> "Admin network - default config risk"],
      [indicator |-> <<"d","e","f","a","u","l","t">>, score_bonus |-> 15, description |-> "Default SSID - unchanged config"],
      [indicator |-> <<"l","i","n","k","s","y","s">>, score_bonus |-> 12, description |-> "Default Linksys SSID"],
      [indicator |-> <<"n","e","t","g","e","a","r">>, score_bonus |-> 12, description |-> "Default Netgear SSID"],
      [indicator |-> <<"d","l","i","n","k">>, score_bonus |-> 12, description |-> "Default D-Link SSID"],
      [indicator |-> <<"r","o","u","t","e","r">>, score_bonus |-> 8, description |-> "Generic router name"]>>

RECURSIVE SumOf(_)
SumOf(numbers) == IF numbers = <<>> THEN 0 ELSE Head(numbers) + SumOf(Tail(numbers))

\* the indicators found in the lower-cased SSID, every one of them counted
matched_indicators(ssid) ==
    SelectSeq(WeakIndicators, LAMBDA w : Contains(Lower(ssid), w.indicator))

indicator_increments(matched) ==
    [i \in DOMAIN matched |-> [bonus |-> matched[i].score_bonus,
                               vector |-> matched[i].description]]

\* the increments of base_score after the protocol branch, with their vectors
legacy_increments(ssid, s, f) ==
    (IF s > -30 THEN <<[bonus |-> 25, vector |-> "Very strong signal - easy target"]>>
     ELSE IF s > -50 THEN <<[bonus |-> 20, vector |-> "Strong signal - viable target"]>>
     ELSE IF s > -70 THEN <<[bonus |-> 10, vector |-> "Moderate signal strength"]>>
     ELSE <<>>)
    \o indicator_increments(matched_indicators(ssid))
    \o (IF ssid = <<>> \/ Strip(ssid) = <<>> \/ Contains(ssid, <<"\\","x","0","0">>)
        THEN <<[bonus |-> 5, vector |-> "Hidden SSID - probe request attacks"]>>
        ELSE <<>>)
    \o (IF f < 2500
        THEN <<[bonus |-> 5, vector |-> "2.4GHz band - more crowded, easier monitoring"]>>
        ELSE IF f > 5000
        THEN <<[bonus |-> 2, vector |-> "5GHz band - shorter range but less monitored"]>>
        ELSE <<>>)

\* base_score before line 308 caps it
legacy_raw_score(ssid, security, s, f) ==
    legacy_protocol(security).base_score
    + SumOf([i \in DOMAIN legacy_increments(ssid, s, f) |-> legacy_increments(ssid, s, f)[i].bonus])

\* min(100, base_score)
legacy_cap_score(base_score) == Min(100, base_score)

\* the level ladder at the end of _analyze_security
legacy_threat_level(vulnerability_score) ==
    IF vulnerability_score >= 80 THEN "CRITICAL"
    ELSE IF vulnerability_score >= 60 THEN "HIGH"
    ELSE IF vulnerability_score >= 40 THEN "MEDIUM"
    ELSE IF vulnerability_score >= 20 THEN "LOW"
    ELSE "MINIMAL"

\* AccessPoint(...): the fields given, the defaults, and __post_init__
AccessPoint(bssid, ssid, s, f, channel, security, factor, hash_degrees) ==
    LET vulnerability_score == legacy_cap_score(legacy_raw_score(ssid, security, s, f))
    IN  [bssid |-> bssid, ssid |-> ssid, signal_dbm |-> s, frequency |-> f,
         channel |-> channel, security |-> security,
         distance |-> legacy_calculate_distance(s, factor),
         angle |-> legacy_calculate_angle(hash_degrees, channel),
         vendor |-> analyze_vendor(bssid),
         confidence |-> 0,
         vulnerability_score |-> vulnerability_score,
         attack_vectors |->
             legacy_protocol(security).attack_vectors
             \o [i \in DOMAIN legacy_increments(ssid, s, f) |->
                    legacy_increments(ssid, s, f)[i].vector],
         threat_level |-> legacy_threat_level(vulnerability_score),
         is_vulnerable |-> legacy_protocol(security).is_vulnerable \/ vulnerability_score >= 40,
         encryption_details |-> legacy_protocol(security).encryption_details,
         wps_enabled |-> FALSE, client_count |-> 0, uptime_estimate |-> 0]

-----------------------------------------------------------------------------
(***************************************************************************)
(* SpecAnalyze: one access point analysed by the engine, or built (twice,  *)
(* as in two cycles of WiFiScanner.run) as a legacy AccessPoint.           *)
(***************************************************************************)

\* the SSIDs tried
SsidInputs ==
    {<<>>, <<"H","i","d","d","e","n">>, <<"a","d","m","i","n">>, <<"M","y","H","o","m","e">>, <<"N","e","t","-","5","G">>, <<"a","b">>,
     <<"c","a","f","e","1","2","3">>, <<"F","r","e","e"," ","P","u","b","l","i","c"," ","T","e","s","t">>, <<"H","i","d","d","e","n","_","a","a",":","b","b",":","c","c",":","d","d",":","e","e",":","f","f">>}

\* the radios tried: a BSSID and the frequency it transmits on (MHz)
RadioInputs ==
    {[bssid |-> <<"A","A",":","B","B",":","C","C",":","D","D",":","E","E",":","F","F">>, frequency |-> 2437],
     [bssid |-> <<"0","0",":","0","0",":","0","0",":","1","1",":","1","1",":","1","1">>, frequency |-> 5180],
     [bssid |-> <<"D","4",":","C","A",":","6","D",":","0","1",":","0","2",":","0","3">>, frequency |-> 6100],
     [bssid |-> <<"U","n","k","n","o","w","n">>, frequency |-> 0]}

\* the values _determine_security_type produces
SecurityInputs == {<<"O","p","e","n">>, <<"W","E","P">>, <<"W","P","A">>, <<"W","P","A","2">>, <<"W","P","A","3">>, <<"W","P","S">>, <<"U","n","k","n","o","w","n">>}

\* signal strengths on both sides of every threshold (dBm)
AnalysisSignals == {-95, -80, -75, -65, -55, -50, -35, -25}

\* security_types of _get_default_config
DefaultProfiles ==
    (<<"O","p","e","n">> :> [base_score |-> 90, risk_level |-> "CRITICAL", attack_vectors |-> <<"Direct Access">>])
    @@ (<<"W","E","P">> :> [base_score |-> 85, risk_level |-> "CRITICAL", attack_vectors |-> <<"WEP Cracking">>])
    @@ (<<"W","P","A">> :> [base_score |-> 40, risk_level |-> "HIGH", attack_vectors |-> <<"Handshake Capture">>])
    @@ (<<"W","P","A","2">> :> [base_score |-> 30, risk_level |-> "MEDIUM", attack_vectors |-> <<"PMKID Attack">>])
    @@ (<<"W","P","A","3">> :> [base_score |-> 10, risk_level |-> "LOW", attack_vectors |-> <<"SAE Attack">>])

\* a configuration file whose security_types name two types only, one of
\* them listing a vector the engine adds again
TwoProfiles ==
    (<<"O","p","e","n">> :> [base_score |-> 90, risk_level |-> "CRITICAL",
                  attack_vectors |-> <<"Direct Access", "Session hijacking">>])
    @@ (<<"W","P","A","3">> :> [base_score |-> 10, risk_level |-> "LOW", attack_vectors |-> <<"SAE Attack">>])

\* the table get_threat_level_for_score uses when the configuration has none
DefaultThreatLevels ==
    <<[level |-> "CRITICAL", min |-> 80, color |-> "#ff4444"],
      [level |-> "HIGH", min |-> 60, color |-> "#ff8800"],
      [level |-> "MEDIUM", min |-> 40, color |-> "#ffaa00"],
      [level |-> "LOW", min |-> 0, color |-> "#88ff88"]>>

\* a configured table, listed from the lowest level up, LOW starting at 20
RaisedThreatLevels ==
    <<[level |-> "LOW", min |-> 20, color |-> "#00ff00"],
      [level |-> "MEDIUM", min |-> 50, color |-> "#ffff00"],
      [level |-> "HIGH", min |-> 70, color |-> "#ff8800"],
      [level |-> "CRITICAL", min |-> 90, color |-> "#ff0000"]>>

\* signal ranges whose bonuses exceed the score scale in both directions
ExtremeBonusRanges ==
    <<[min_dbm |-> -60, multiplier |-> 1000, bonus |-> 200],
      [min_dbm |-> -100, multiplier |-> 1000, bonus |-> -200]>>

AnalysisConfigs ==
    {[security_profiles |-> DefaultProfiles, signal_ranges |-> <<>>,
      threat_levels |-> DefaultThreatLevels],
     [security_profiles |-> DefaultProfiles, signal_ranges |-> ExtremeBonusRanges,
      threat_levels |-> RaisedThreatLevels],
     [security_profiles |-> TwoProfiles, signal_ranges |-> <<>>,
      threat_levels |-> DefaultThreatLevels]}

\* how many times the scanner thread builds the object of one network
MaxBuilds == 2

InitAnalyze ==
    /\ NotAnaIdle
    /\ ap_ssid \in SsidInputs
    /\ \E radio \in RadioInputs : ap_bssid = radio.bssid /\ ap_frequency = radio.frequency
    /\ ap_security \in SecurityInputs
    /\ ap_signal \in AnalysisSignals
    /\ \/ /\ analyzer = "engine"
          /\ \E c \in AnalysisConfigs :
                /\ security_profiles = c.security_profiles
                /\ loaded_ranges = c.signal_ranges
                /\ threat_levels = c.threat_levels
          /\ ap_channel = 0
          /\ bssid_hash = 0
       \/ /\ analyzer = "legacy"
          /\ security_profiles = <<>>
          /\ loaded_ranges = <<>>
          /\ threat_levels = <<>>
          /\ ap_channel = 6
          /\ bssid_hash \in {0, 123}
    /\ analysis = NotAnalyzed
    /\ built = <<>>

\* security_engine.analyze_access_point
AnalyzeAccessPoint ==
    /\ analyzer = "engine"
    /\ analysis = NotAnalyzed
    /\ \E order \in SetOrders :
          analysis' = analyze_access_point(security_profiles, loaded_ranges, threat_levels,
                                           ap_ssid, ap_bssid, ap_security, ap_signal,
                                           ap_frequency, order)
    /\ UNCHANGED <<analyzer, ap_ssid, ap_bssid, ap_security, ap_signal, ap_frequency,
                   ap_channel, security_profiles, loaded_ranges, threat_levels, bssid_hash,
                   built, notAnaVars>>

\* one cycle of WiFiScanner.run building the AccessPoint of the network
BuildAccessPoint ==
    /\ analyzer = "legacy"
    /\ Len(built) < MaxBuilds
    /\ \E factor \in JitterFactors :
          built' = Append(built, AccessPoint(ap_bssid, ap_ssid, ap_signal, ap_frequency,
                                             ap_channel, ap_security, factor, bssid_hash))
    /\ UNCHANGED <<analyzer, ap_ssid, ap_bssid, ap_security, ap_signal, ap_frequency,
                   ap_channel, security_profiles, loaded_ranges, threat_levels, bssid_hash,
                   analysis, notAnaVars>>

NextAnalyze == AnalyzeAccessPoint \/ BuildAccessPoint

SpecAnalyze == InitAnalyze /\ [][NextAnalyze]_vars

\* C13: every vulnerability score lies in [0, 100]: the score of every
\* analysis result of the engine, for whatever the profile, the signal bonus
\* and the SSID bonus add up to, and the score of every legacy AccessPoint
C13_ScoreWithinScale ==
    /\ analysis.kind = "value" => analysis.vulnerability_score \in 0..100
    /\ \A i \in DOMAIN built : built[i].vulnerability_score \in 0..100

\* an analysis whose sum left the scale on either side, and a legacy object
\* whose sum exceeded 100
C13_ScoreWasCut ==
    \/ /\ analysis.kind = "value"
       /\ ap_security \in DOMAIN security_profiles
       /\ raw_score(security_profiles[ap_security], loaded_ranges, ap_ssid, ap_signal) < 0
    \/ /\ built # <<>>
       /\ legacy_raw_score(ap_ssid, ap_security, ap_signal, ap_frequency) > 100

-----------------------------------------------------------------------------
(***************************************************************************)
(* SpecThreat: get_threat_level_for_score called for two scores under one  *)
(* table.                                                                  *)
(***************************************************************************)

\* the top of the score scale
MaxScore == 100

\* LOW < MEDIUM < HIGH < CRITICAL
LevelRank(level) ==
    IF level = "LOW" THEN 1 ELSE IF level = "MEDIUM" THEN 2
    ELSE IF level = "HIGH" THEN 3 ELSE IF level = "CRITICAL" THEN 4 ELSE 0

\* a configured table in which two levels start at the same score
TiedThreatLevels ==
    <<[level |-> "LOW", min |-> 0, color |-> "#88ff88"],
      [level |-> "HIGH", min |-> 40, color |-> "#ff8800"],
      [level |-> "MEDIUM", min |-> 40, color |-> "#ffaa00"],
      [level |-> "CRITICAL", min |-> 80, color |-> "#ff4444"]>>

\* a configured table that names two levels only, in no particular order
PartialThreatLevels ==
    <<[level |-> "HIGH", min |-> 50, color |-> "#ff8800"],
      [level |-> "CRITICAL", min |-> 90, color |-> "#ff4444"],
      [level |-> "MEDIUM", min |-> 30, color |-> "#ffaa00"]>>

\* the tables tried: in each the minimums rise with the levels
ThreatTables ==
    {DefaultThreatLevels, RaisedThreatLevels, TiedThreatLevels, PartialThreatLevels}

InitThreat ==
    /\ NotThrIdle
    /\ level_table \in ThreatTables
    /\ score_lo \in 0..MaxScore
    /\ score_hi \in score_lo..MaxScore
    /\ level_lo = NoLevel
    /\ level_hi = NoLevel

LookUpLower ==
    /\ level_lo = NoLevel
    /\ level_lo' = get_threat_level_for_score(level_table, score_lo)
    /\ UNCHANGED <<level_table, score_lo, score_hi, level_hi, notThrVars>>

LookUpHigher ==
    /\ level_hi = NoLevel
    /\ level_hi' = get_threat_level_for_score(level_table, score_hi)
    /\ UNCHANGED <<level_table, score_lo, score_hi, level_lo, notThrVars>>

NextThreat == LookUpLower \/ LookUpHigher

SpecThreat == InitThreat /\ [][NextThreat]_vars

\* the level is that of a threshold the score reaches, no threshold the
\* score reaches has a greater minimum; LOW when the score reaches none
IsHighestThresholdReached(levels, score, returned) ==
    IF \A i \in DOMAIN levels : score < levels[i].min
    THEN returned.level = "LOW"
    ELSE \E i \in DOMAIN levels :
            /\ levels[i].level = returned.level
            /\ levels[i].min <= score
            /\ \A j \in DOMAIN levels : levels[j].min <= score => levels[j].min <= levels[i].min

\* C14: the level is monotonic in the score: of two scores the higher never
\* gets a lower level (LOW < MEDIUM < HIGH < CRITICAL), and each level
\* returned is that of the highest threshold whose minimum the score reaches
C14_LevelMonotonicInScore ==
    /\ level_lo # NoLevel => IsHighestThresholdReached(level_table, score_lo, level_lo)
    /\ level_hi # NoLevel => IsHighestThresholdReached(level_table, score_hi, level_hi)
    /\ level_lo # NoLevel /\ level_hi # NoLevel
          => LevelRank(level_lo.level) <= LevelRank(level_hi.level)

\* two scores on different sides of a threshold, both looked up in a table
\* that is not listed from the highest minimum down
C14_TwoLevelsLookedUp ==
    /\ level_lo # NoLevel /\ level_hi # NoLevel
    /\ level_table = RaisedThreatLevels
    /\ LevelRank(level_lo.level) < LevelRank(level_hi.level)


\* C15: in every record a parse of one block returns, threat_level is the level the
\* default threshold table (CRITICAL from 80, HIGH from 60, MEDIUM from 40,
\* LOW below) gives to the vulnerability_score of the same record
C15_RecordLevelMatchesItsScore ==
    dialect \in {"iw", "iwlist"} /\ parsed.kind = "value" /\ SingleBlock
    => \A i \in DOMAIN parsed.access_points :
          parsed.access_points[i].threat_level =
             get_threat_level_for_score(DefaultThreatLevels,
                                        parsed.access_points[i].vulnerability_score).level


ThreatLevelNames == {"LOW", "MEDIUM", "HIGH", "CRITICAL"}

\* C16: the threat_level of every analysis result and of every legacy
\* AccessPoint is one of LOW, MEDIUM, HIGH, CRITICAL
C16_LevelIsOneOfFour ==
    /\ analysis.kind = "value" => analysis.threat_level \in ThreatLevelNames
    /\ \A i \in DOMAIN built : built[i].threat_level \in ThreatLevelNames


\* the vectors in the order the stages add them: the profile's, then the
\* signal-derived, the SSID-derived and the protocol-specific ones
StagedVectors ==
    (IF ap_security \in DOMAIN security_profiles
     THEN security_profiles[ap_security].attack_vectors
     ELSE security_profiles[<<"W","P","A","2">>].attack_vectors)
    \o get_additional_attack_vectors(ap_security, ap_signal, ap_ssid)

\* C17: the attack_vectors of an analysis result hold no vector twice and
\* list the vectors in the order of their first occurrence across the stages
C17_VectorsInFirstOccurrenceOrder ==
    analysis.kind = "value"
    => /\ \A i, j \in DOMAIN analysis.attack_vectors :
             i # j => analysis.attack_vectors[i] # analysis.attack_vectors[j]
       /\ analysis.attack_vectors = FirstOccurrences(StagedVectors)


\* a line that gives the network a name
NamesSsid(line) == line \in {IwSsid, ListEssid}

\* C18: the record of a block that names no SSID (no SSID line, or an empty
\* one) keeps the empty string as its ssid: the parse writes no placeholder
C18_HiddenSsidStaysEmpty ==
    /\ dialect \in {"iw", "iwlist"} /\ parsed.kind = "value"
    /\ SingleBlock
    /\ \A i \in DOMAIN RawLines : ~NamesSsid(RawLines[i])
    => \A i \in DOMAIN parsed.access_points : parsed.access_points[i].ssid = <<>>


\* C19: two builds of the record of one network are identical: every
\* derived field of the legacy AccessPoint, distance included, is a function
\* of the parsed fields
C19_RebuildIsIdentical ==
    \A i, j \in DOMAIN built : built[i] = built[j]


\* the estimate for the signal one dBm above the one of the state
DistanceOneDbmStronger ==
    calculate_distance(signal_dbm + 1, frequency_mhz, params, signal_ranges, freq_corrections)

NotFartherThan(stronger, weaker) == stronger.kind = "value" /\ stronger.cm <= weaker.cm

\* C20: with the frequency held, the estimate does not grow with the signal
\* over [-100, 0] dBm: one dBm more never gives a greater distance, the
\* table-based and the fixed corrections applied
C20_DistanceMonotonicInSignal ==
    distance.kind = "value" /\ signal_dbm \in -100..-1
    => NotFartherThan(DistanceOneDbmStronger, distance)

\* the same under the configuration that has no correction tables
DefaultConfigMonotonic ==
    signal_ranges = <<>> => C20_DistanceMonotonicInSignal


\* C21: analyze_access_point returns a result for every security value,
\* whatever profiles the configuration holds: it never fails for lack of a
\* profile
C21_AnalysisNeverLacksProfile ==
    analyzer = "engine" /\ analysis # NotAnalyzed => analysis.kind = "value"

-----------------------------------------------------------------------------
(***************************************************************************)
(* SpecReload: reload_configuration running beside a thread that makes the *)
(* two table lookups of one analysis.  A dictionary is the sequence of its *)
(* (key, value) entries in insertion order; one step of the reload is one  *)
(* dictionary assignment.  Multipliers are in thousandths.                 *)
(***************************************************************************)

DictHas(d, k) == \E i \in DOMAIN d : d[i].key = k

\* d[k] = v: the entry replaced where it stands, or added at the end
DictSet(d, k, v) ==
    IF DictHas(d, k)
    THEN [i \in DOMAIN d |-> IF d[i].key = k THEN [key |-> k, value |-> v] ELSE d[i]]
    ELSE Append(d, [key |-> k, value |-> v])

DictValues(d) == [i \in DOMAIN d |-> d[i].value]

Returned(v) == [looked |-> TRUE, found |-> TRUE, value |-> v]

ReturnedNone == [looked |-> TRUE, found |-> FALSE]

\* get_security_profile: security_profiles.get(security_type)
get_security_profile(profiles, security_type) ==
    IF DictHas(profiles, security_type)
    THEN Returned((CHOOSE e \in Range(profiles) : e.key = security_type).value)
    ELSE ReturnedNone

\* get_signal_range_info on the manager's dictionary
lookup_signal_range(ranges, s) ==
    IF get_signal_range_info(DictValues(ranges), s) = 0 THEN ReturnedNone
    ELSE Returned(DictValues(ranges)[get_signal_range_info(DictValues(ranges), s)])

\* the assignments _parse_security_profiles, _parse_signal_ranges and
\* _parse_visualization_modes make for a loaded configuration, in order
parse_assignments(config) ==
    [i \in DOMAIN config.security_types |->
        [op |-> "profile", key |-> config.security_types[i].key,
         value |-> config.security_types[i].value]]
    \o [i \in DOMAIN config.signal_ranges |->
        [op |-> "range", key |-> config.signal_ranges[i].key,
         value |-> [min_dbm |-> config.signal_ranges[i].value.min,
                    multiplier |-> config.signal_ranges[i].value.multiplier,
                    bonus |-> 0]]]
    \o [i \in DOMAIN config.signal_strength_modifiers |->
        [op |-> "modifier", key |-> config.signal_strength_modifiers[i].key,
         value |-> config.signal_strength_modifiers[i].value]]
    \o [i \in DOMAIN config.radar_modes |->
        [op |-> "mode", key |-> config.radar_modes[i].key,
         value |-> config.radar_modes[i].value]]

Tables(profiles, ranges, modes) ==
    [security_profiles |-> profiles, signal_ranges |-> ranges, visualization_modes |-> modes]

\* one assignment applied to the three dictionaries
assign(tables, a) ==
    IF a.op = "profile"
    THEN [tables EXCEPT !.security_profiles = DictSet(@, a.key, a.value)]
    ELSE IF a.op = "range"
    THEN [tables EXCEPT !.signal_ranges = DictSet(@, a.key, a.value)]
    ELSE IF a.op = "modifier"
    THEN IF DictHas(tables.signal_ranges, a.key)
         THEN [tables EXCEPT !.signal_ranges =
                  [i \in DOMAIN @ |-> IF @[i].key = a.key
                                      THEN [@[i] EXCEPT !.value.bonus = a.value.bonus]
                                      ELSE @[i]]]
         ELSE tables
    ELSE [tables EXCEPT !.visualization_modes = DictSet(@, a.key, a.value)]

RECURSIVE assign_all(_, _)
assign_all(tables, assignments) ==
    IF assignments = <<>> THEN tables
    ELSE assign_all(assign(tables, Head(assignments)), Tail(assignments))

\* ConfigurationManager(config_file): the dictionaries start empty
ConfigurationManager(file) == assign_all(Tables(<<>>, <<>>, <<>>), parse_assignments(file))

\* what the parse functions make of the manager's dictionaries for a
\* configuration
parse_tables(tables, config) == assign_all(tables, parse_assignments(config))

Entry(k, v) == [key |-> k, value |-> v]

\* configuration files
FileA ==
    [security_types |->
        <<Entry("WPA2", [base_score |-> 30, risk_level |-> "MEDIUM", attack_vectors |-> <<"PMKID Attack">>]),
          Entry("WEP", [base_score |-> 85, risk_level |-> "CRITICAL", attack_vectors |-> <<"WEP Cracking">>])>>,
     signal_ranges |->
        <<Entry("strong", [min |-> -50, multiplier |-> 800]),
          Entry("weak", [min |-> -90, multiplier |-> 1300])>>,
     signal_strength_modifiers |->
        <<Entry("strong", [bonus |-> 20]), Entry("weak", [bonus |-> 5])>>,
     radar_modes |->
        <<Entry("grid", [name |-> "Grid", description |-> "", settings |-> <<>>])>>]

\* a file with fewer entries, the ranges listed the other way round
FileB ==
    [security_types |->
        <<Entry("WPA2", [base_score |-> 35, risk_level |-> "MEDIUM", attack_vectors |-> <<"PMKID Attack">>])>>,
     signal_ranges |->
        <<Entry("weak", [min |-> -90, multiplier |-> 1500]),
          Entry("strong", [min |-> -50, multiplier |-> 700])>>,
     signal_strength_modifiers |-> <<Entry("strong", [bonus |-> 10])>>,
     radar_modes |-> <<>>]

\* a file with more profiles and no signal ranges
FileC ==
    [security_types |->
        <<Entry("Open", [base_score |-> 90, risk_level |-> "CRITICAL", attack_vectors |-> <<"Direct Access">>]),
          Entry("WEP", [base_score |-> 80, risk_level |-> "CRITICAL", attack_vectors |-> <<"WEP Cracking">>]),
          Entry("WPA2", [base_score |-> 30, risk_level |-> "MEDIUM", attack_vectors |-> <<"PMKID Attack">>])>>,
     signal_ranges |-> <<>>,
     signal_strength_modifiers |-> <<Entry("strong", [bonus |-> 20])>>,
     radar_modes |->
        <<Entry("grid", [name |-> "Grid", description |-> "squares", settings |-> <<>>])>>]

ConfigFiles == {FileA, FileB, FileC}

InitReload ==
    /\ NotCfgIdle
    /\ old_file \in ConfigFiles
    /\ config_file \in ConfigFiles
    /\ mgr_config = old_file
    /\ mgr_profiles = ConfigurationManager(old_file).security_profiles
    /\ mgr_ranges = ConfigurationManager(old_file).signal_ranges
    /\ mgr_modes = ConfigurationManager(old_file).visualization_modes
    /\ reload_pc = "idle"
    /\ reload_todo = <<>>
    /\ reader_security \in {"WPA2", "WEP"}
    /\ reader_signal \in {-45, -75}
    /\ reader_profile = NotLookedUp
    /\ reader_range = NotLookedUp

\* reload_configuration, line 243: _load_configuration replaces self.config
LoadConfiguration ==
    /\ reload_pc = "idle"
    /\ mgr_config' = config_file
    /\ reload_todo' = parse_assignments(config_file)
    /\ reload_pc' = "running"
    /\ UNCHANGED <<config_file, old_file, mgr_profiles, mgr_ranges, mgr_modes,
                   reader_security, reader_signal, reader_profile, reader_range, notCfgVars>>

AfterAssignment(tables) ==
    /\ mgr_profiles' = tables.security_profiles
    /\ mgr_ranges' = tables.signal_ranges
    /\ mgr_modes' = tables.visualization_modes

\* lines 244-246: the next assignment of the three parse functions
ParseStep ==
    /\ reload_pc = "running"
    /\ reload_todo # <<>>
    /\ AfterAssignment(assign(Tables(mgr_profiles, mgr_ranges, mgr_modes), Head(reload_todo)))
    /\ reload_todo' = Tail(reload_todo)
    /\ UNCHANGED <<config_file, old_file, mgr_config, reload_pc,
                   reader_security, reader_signal, reader_profile, reader_range, notCfgVars>>

\* reload_configuration returns
ReloadReturn ==
    /\ reload_pc = "running"
    /\ reload_todo = <<>>
    /\ reload_pc' = "returned"
    /\ UNCHANGED <<config_file, old_file, mgr_config, mgr_profiles, mgr_ranges, mgr_modes,
                   reload_todo, reader_security, reader_signal, reader_profile, reader_range,
                   notCfgVars>>

\* the reader's get_security_profile (security_engine.py line 67)
LookUpProfile ==
    /\ reader_profile = NotLookedUp
    /\ reader_profile' = get_security_profile(mgr_profiles, reader_security)
    /\ UNCHANGED <<config_file, old_file, mgr_config, mgr_profiles, mgr_ranges, mgr_modes,
                   reload_pc, reload_todo, reader_security, reader_signal, reader_range,
                   notCfgVars>>

\* the reader's get_signal_range_info (security_engine.py line 129), after
\* the profile lookup
LookUpRange ==
    /\ reader_profile # NotLookedUp
    /\ reader_range = NotLookedUp
    /\ reader_range' = lookup_signal_range(mgr_ranges, reader_signal)
    /\ UNCHANGED <<config_file, old_file, mgr_config, mgr_profiles, mgr_ranges, mgr_modes,
                   reload_pc, reload_todo, reader_security, reader_signal, reader_profile,
                   notCfgVars>>

NextReload == LoadConfiguration \/ ParseStep \/ ReloadReturn \/ LookUpProfile \/ LookUpRange

SpecReload == InitReload /\ [][NextReload]_vars

\* the complete tables before the reload, and the complete tables after it
OldTables == ConfigurationManager(old_file)

NewTables == parse_tables(OldTables, config_file)

\* C22: a reader that runs beside reload_configuration sees the complete old
\* tables or the complete new ones: each of its lookups returns what one of
\* the two gives, and the two lookups of one analysis come from the same one
C22_ReaderSeesOldOrNewTables ==
    /\ reader_profile # NotLookedUp =>
          \/ reader_profile = get_security_profile(OldTables.security_profiles, reader_security)
          \/ reader_profile = get_security_profile(NewTables.security_profiles, reader_security)
    /\ reader_range # NotLookedUp =>
          \/ reader_range = lookup_signal_range(OldTables.signal_ranges, reader_signal)
          \/ reader_range = lookup_signal_range(NewTables.signal_ranges, reader_signal)
    /\ reader_profile # NotLookedUp /\ reader_range # NotLookedUp =>
          \/ /\ reader_profile = get_security_profile(OldTables.security_profiles, reader_security)
             /\ reader_range = lookup_signal_range(OldTables.signal_ranges, reader_signal)
          \/ /\ reader_profile = get_security_profile(NewTables.security_profiles, reader_security)
             /\ reader_range = lookup_signal_range(NewTables.signal_ranges, reader_signal)

\* C29: once reload_configuration has returned, the security profiles and
\* the signal ranges are the tables a fresh ConfigurationManager builds from
\* the same file
C29_ReloadEqualsFreshManager ==
    reload_pc = "returned"
    => /\ mgr_profiles = ConfigurationManager(config_file).security_profiles
       /\ mgr_ranges = ConfigurationManager(config_file).signal_ranges


\* C26: get_signal_range_info returns, of the configured ranges whose
\* min_dbm the signal reaches, the one with the greatest min_dbm, in whatever
\* order the configuration lists them, and no range when none qualifies
C26_GreatestQualifyingRange ==
    reload_pc = "idle" /\ reader_range # NotLookedUp
    => IF \A i \in DOMAIN mgr_ranges : reader_signal < mgr_ranges[i].value.min_dbm
       THEN reader_range = ReturnedNone
       ELSE /\ reader_range.found
            /\ \A i \in DOMAIN mgr_ranges :
                  mgr_ranges[i].value.min_dbm <= reader_signal
                  => mgr_ranges[i].value.min_dbm <= reader_range.value.min_dbm


\* what a formula contributes when its failure is replaced by 50.0 m
OrPlaceholder(r) == IF r.kind = "raise" THEN 5000 ELSE r.cm

\* the estimate when every formula that fails contributes 50.0 m and the
\* combination, the corrections, the clamp and the rounding run all the same
EstimateWithPlaceholders ==
    Value(round1(Max(50, Min(200000,
        apply_corrections(
            Min(BigCm,
                (3 * OrPlaceholder(calculate_fspl_distance(
                         signal_dbm, frequency_mhz, estimate_tx_power(frequency_mhz)))
                 + 5 * OrPlaceholder(calculate_log_normal_distance(
                         signal_dbm, frequency_mhz, estimate_tx_power(frequency_mhz), params))
                 + 2 * OrPlaceholder(calculate_itu_indoor_distance(
                         signal_dbm, frequency_mhz, estimate_tx_power(frequency_mhz))))
                \div 10),
            signal_dbm, frequency_mhz, signal_ranges, freq_corrections)))))

\* C25: an arithmetic failure inside a formula (the logarithm of a
\* non-positive frequency, a zero exponent, an overflow of the power of
\* ten) makes that formula give 50.0 m and nothing else: the estimate is the
\* clamped, corrected combination all the same
C25_FailingFormulaGivesPlaceholder ==
    distance # NotCalled => distance = EstimateWithPlaceholders

\* the same for the two failures the formulas catch
CaughtFailuresGivePlaceholder ==
    signal_dbm >= -105 => C25_FailingFormulaGivesPlaceholder


-----------------------------------------------------------------------------
\* The scan API (api/routers/scanner.py) over the module-level wifi_service.
\* The handlers are coroutines on one event loop.  wifi_service.py awaits
\* only its own coroutines, and these run their commands with the blocking
\* subprocess.run: no handler has a point where the event loop can switch to
\* another request, so a handler that has started runs to its return before
\* the next request is served.  Requests and changes of the machine's
\* interfaces arrive at any moment.

WirelessNames == {"wlan0"}

\* the interface names a request gives; eth0 is never wireless
InterfaceNames == WirelessNames \cup {"eth0"}

ActiveStatuses == {"starting", "running"}

TerminalStatuses == {"completed", "failed", "cancelled"}

\* how the scan commands of one scan_wifi call end: access points found, both
\* commands giving nothing, or an exception reaching the except clause of
\* scan_wifi; on an interface that is not there nothing is found
CommandOutcomes(iface, present) ==
    IF iface \in present THEN {"found", "nothing", "error"} ELSE {"nothing", "error"}

NotCalledYet == [kind |-> "none"]

ServiceReturned(success, count, cache) ==
    [kind |-> "returned", success |-> success, access_points |-> count, interfaces |-> cache]

\* an exception leaving scan_wifi
ServiceRaised(cache) ==
    [kind |-> "raised", success |-> FALSE, access_points |-> 0, interfaces |-> cache]

\* WiFiService.scan_wifi: the result, the number of access points in it and
\* _available_interfaces after the call.  An interface in the list is not
\* looked for again; otherwise get_interfaces replaces the list by the
\* wireless interfaces present now
scan_wifi(cache, present, iface, cmd) ==
    IF iface \notin cache /\ iface \notin present
    THEN ServiceReturned(FALSE, 0, present)
    ELSE IF cmd = "found" THEN ServiceReturned(TRUE, 1, IF iface \in cache THEN cache ELSE present)
    ELSE IF cmd = "nothing" THEN ServiceReturned(TRUE, 0, IF iface \in cache THEN cache ELSE present)
    ELSE ServiceReturned(FALSE, 0, IF iface \in cache THEN cache ELSE present)

\* start_scan marking the success only and leaving a failed scan as it was
status_after_success_only(result) ==
    IF result.kind = "returned" /\ result.success THEN "completed" ELSE "running"

\* the status start_scan writes when scan_wifi is back
status_after(result) ==
    IF result.kind = "returned" /\ result.success THEN "completed" ELSE "failed"

\* the status code start_scan answers with
code_after(result) ==
    IF result.kind = "raised" THEN 500 ELSE IF result.success THEN 200 ELSE 400

\* cancel_scan without its check of the status: it marks every registered
\* scan CANCELLED
cancel_scan_unchecked(registry, s) ==
    IF registry[s] = "absent" THEN [code |-> 404, registry |-> registry]
    ELSE [code |-> 200, registry |-> [registry EXCEPT ![s] = "cancelled"]]

\* cancel_scan: the status code it answers and the registry it leaves
cancel_scan(registry, s) ==
    IF registry[s] = "absent" THEN [code |-> 404, registry |-> registry]
    ELSE IF registry[s] \in TerminalStatuses THEN [code |-> 400, registry |-> registry]
    ELSE [code |-> 200, registry |-> [registry EXCEPT ![s] = "cancelled"]]

\* get_active_scans: the scans it lists
get_active_scans(registry) == {s \in ScanIds : registry[s] \in ActiveStatuses}

InitApi ==
    /\ NotApiIdle
    /\ active_scans = [s \in ScanIds |-> "absent"]
    /\ service_interfaces = {}
    /\ plugged \in SUBSET WirelessNames
    /\ handler = LoopIdle
    /\ cancel_waiting = {}
    /\ cancelled_active = {}
    /\ scan_answer = [s \in ScanIds |-> NoAnswer]
    /\ last_answer = NothingRead

\* start_scan up to the registration of the scan under a fresh uuid4 (the
\* ids are taken in order: which unused id it is makes no difference)
StartScan ==
    /\ handler = LoopIdle
    /\ \E s \in ScanIds, iface \in InterfaceNames :
          /\ active_scans[s] = "absent"
          /\ \A t \in 1..(s - 1) : active_scans[t] # "absent"
          /\ active_scans' = [active_scans EXCEPT ![s] = "starting"]
          /\ handler' = [op |-> "start_scan", pc |-> "registered", scan_id |-> s,
                         interface |-> iface, command |-> "",
                         result |-> NotCalledYet]
    /\ UNCHANGED <<service_interfaces, plugged, cancel_waiting, cancelled_active,
                   scan_answer, last_answer, notApiVars>>

\* start_scan marking the scan RUNNING
MarkRunning ==
    /\ handler.op = "start_scan" /\ handler.pc = "registered"
    /\ active_scans' = [active_scans EXCEPT ![handler.scan_id] = "running"]
    /\ handler' = [handler EXCEPT !.pc = "running"]
    /\ UNCHANGED <<service_interfaces, plugged, cancel_waiting, cancelled_active,
                   scan_answer, last_answer, notApiVars>>

\* await wifi_service.scan_wifi(interface, duration): the commands run to
\* their end inside the call
AwaitScanWifi ==
    /\ handler.op = "start_scan" /\ handler.pc = "running"
    /\ \E cmd \in CommandOutcomes(handler.interface, plugged) \cup {"raise"} :
          /\ handler' = [handler EXCEPT
                 !.pc = "returned", !.command = cmd,
                 !.result = IF cmd = "raise" THEN ServiceRaised(service_interfaces)
                            ELSE scan_wifi(service_interfaces, plugged, handler.interface, cmd)]
          /\ service_interfaces' = handler'.result.interfaces
    /\ UNCHANGED <<active_scans, plugged, cancel_waiting, cancelled_active,
                   scan_answer, last_answer, notApiVars>>

\* start_scan from the result of scan_wifi to its answer
StartScanReturn ==
    /\ handler.op = "start_scan" /\ handler.pc = "returned"
    /\ active_scans' = [active_scans EXCEPT ![handler.scan_id] = status_after(handler.result)]
    /\ scan_answer' = [scan_answer EXCEPT ![handler.scan_id] =
           [code |-> code_after(handler.result),
            access_points |-> handler.result.access_points]]
    /\ handler' = LoopIdle
    /\ UNCHANGED <<service_interfaces, plugged, cancel_waiting, cancelled_active,
                   last_answer, notApiVars>>

\* a client sends DELETE /scan/{scan_id}
SendCancel ==
    /\ \E s \in ScanIds :
          /\ s \notin cancel_waiting
          /\ cancel_waiting' = cancel_waiting \cup {s}
          /\ cancelled_active' =
                IF active_scans[s] \in ActiveStatuses
                THEN cancelled_active \cup {s} ELSE cancelled_active
    /\ UNCHANGED <<active_scans, service_interfaces, plugged, handler, scan_answer,
                   last_answer, notApiVars>>

\* the event loop serves a cancel request
CancelScan ==
    /\ handler = LoopIdle
    /\ \E s \in cancel_waiting :
          /\ active_scans' = cancel_scan(active_scans, s).registry
          /\ last_answer' = [op |-> "cancel_scan", code |-> cancel_scan(active_scans, s).code]
          /\ cancel_waiting' = cancel_waiting \ {s}
    /\ UNCHANGED <<service_interfaces, plugged, handler, cancelled_active, scan_answer,
                   notApiVars>>

\* get_scan_status
GetScanStatus ==
    /\ handler = LoopIdle
    /\ \E s \in ScanIds :
          last_answer' = [op |-> "get_scan_status",
                        code |-> IF active_scans[s] = "absent" THEN 404 ELSE 200,
                        status |-> active_scans[s]]
    /\ UNCHANGED <<active_scans, service_interfaces, plugged, handler, cancel_waiting,
                   cancelled_active, scan_answer, notApiVars>>

\* the handler of GET /scan/active
GetActiveScans ==
    /\ handler = LoopIdle
    /\ last_answer' = [op |-> "get_active_scans", listed |-> get_active_scans(active_scans)]
    /\ UNCHANGED <<active_scans, service_interfaces, plugged, handler, cancel_waiting,
                   cancelled_active, scan_answer, notApiVars>>

\* the handlers of GET /interfaces: wifi_service.get_interfaces
GetInterfaces ==
    /\ handler = LoopIdle
    /\ service_interfaces' = plugged
    /\ UNCHANGED <<active_scans, plugged, handler, cancel_waiting, cancelled_active,
                   scan_answer, last_answer, notApiVars>>

\* a wireless adapter is plugged in or pulled out
Replug ==
    /\ \E present \in SUBSET WirelessNames :
          /\ present # plugged
          /\ plugged' = present
    /\ UNCHANGED <<active_scans, service_interfaces, handler, cancel_waiting,
                   cancelled_active, scan_answer, last_answer, notApiVars>>

NextApi ==
    \/ StartScan \/ MarkRunning \/ AwaitScanWifi \/ StartScanReturn
    \/ SendCancel \/ CancelScan \/ GetScanStatus \/ GetActiveScans
    \/ GetInterfaces \/ Replug

SpecApi == InitApi /\ [][NextApi]_vars


\* scan_wifi returns in this step
ScanWifiReturns ==
    /\ handler.op = "start_scan" /\ handler.pc = "running"
    /\ handler'.op = "start_scan" /\ handler'.pc = "returned"
    /\ handler'.result.kind = "returned"

\* what the same call gives on a service no other request has used
UnsharedResult == scan_wifi({}, plugged, handler.interface, handler'.command)

\* C23: requests share no mutable state: the outcome of a scan is what the
\* same scan gives on a service that no other request (scan or interface
\* listing) has used
C23_ScanOutcomeUnshared ==
    [][ScanWifiReturns =>
           /\ handler'.result.success = UnsharedResult.success
           /\ handler'.result.access_points = UnsharedResult.access_points]_vars


\* start_scan handed access points to its requester for scan s
ReturnedAccessPoints(s) == scan_answer[s].code = 200 /\ scan_answer[s].access_points > 0

CancelNeverSucceeds ==
    ~(last_answer.op = "cancel_scan" /\ last_answer.code = 200) /\ \A s \in ScanIds : active_scans[s] # "cancelled"


\* the order the statuses of one scan follow
StatusSteps ==
    {<<"absent", "starting">>, <<"starting", "running">>}
    \cup {<<"running", t>> : t \in TerminalStatuses}

\* C27: the status of each scan only moves forward, STARTING then RUNNING
\* then one of COMPLETED, FAILED or CANCELLED, and a terminal status never
\* changes, however start_scan, cancel_scan and the status requests follow
\* one another; a cancel on a terminal scan is refused
C27_StatusOnlyMovesForward ==
    [][\A s \in ScanIds :
          \/ active_scans'[s] = active_scans[s]
          \/ <<active_scans[s], active_scans'[s]>> \in StatusSteps]_vars

\* a cancel request for a scan that had completed was served and refused, and
\* the scan is still COMPLETED
C27_CancelRefusedOnTerminal ==
    /\ last_answer = [op |-> "cancel_scan", code |-> 400]
    /\ \E s \in ScanIds : active_scans[s] = "completed" /\ s \notin cancel_waiting
    /\ handler = LoopIdle


\* start_scan has answered the request of scan s
Answered(s) == scan_answer[s].code # 0

\* the event loop runs a handler that has started to its return: start_scan
\* has no point where it waits for anything but its commands, and these end
\* by themselves or by the timeout of subprocess.run
FairSpecApi ==
    /\ SpecApi
    /\ WF_vars(MarkRunning) /\ WF_vars(AwaitScanWifi) /\ WF_vars(StartScanReturn)

-----------------------------------------------------------------------------
\* The legacy background scanner: WiFiScanner.run in its own thread, and
\* stop_scanning called by the window's thread (closeEvent).  Time is counted
\* in seconds; a step that is due is taken before time goes on.

\* the scan cycles one behaviour starts
MaxCycles == 2

\* wait(2000)
WaitSeconds == 2

\* the seconds a scan_wifi call takes; its commands may take up to 30 s each
ScanSeconds == 0..3

\* the seconds run sleeps between two cycles: the window sets 5
ScanIntervals == {1, 5}

\* a signal emitted now counts as late when stop_scanning has returned
Emit(sigs) ==
    late_signals' = IF stop_pc = "returned" THEN late_signals \cup sigs ELSE late_signals

InitPoll ==
    /\ NotPollIdle
    /\ PollIdle

\* start_scanning: the flag is set and the thread started
StartScanning ==
    /\ thread_pc = "not_started"
    /\ scanner_running' = TRUE
    /\ thread_pc' = "check"
    /\ UNCHANGED <<stop_pc, scan_left, sleep_left, wait_left, cycles, late_cycle,
                   late_signals, notPollVars>>

\* run at the top of its loop: it reads _running under the mutex and leaves
\* the loop, or emits scan_progress(25) and calls scan_wifi
ReadRunning ==
    /\ thread_pc = "check"
    /\ IF ~scanner_running
       THEN /\ thread_pc' = "finished"
            /\ UNCHANGED <<scan_left, cycles, late_cycle, late_signals>>
       ELSE /\ cycles < MaxCycles
            /\ thread_pc' = "scanning"
            /\ \E d \in ScanSeconds : scan_left' = d
            /\ cycles' = cycles + 1
            /\ late_cycle' = (late_cycle \/ stop_pc = "returned")
            /\ Emit({"scan_progress"})
    /\ UNCHANGED <<scanner_running, stop_pc, sleep_left, wait_left, notPollVars>>

\* scan_wifi is back: run emits scan_progress and access_points_found, or
\* scan_error when scan_wifi raised, and goes to sleep
ScanWifiBack ==
    /\ thread_pc = "scanning" /\ scan_left = 0
    /\ \E raised \in BOOLEAN :
          Emit(IF raised THEN {"scan_error"} ELSE {"scan_progress", "access_points_found"})
    /\ thread_pc' = "sleeping"
    /\ \E i \in ScanIntervals : sleep_left' = i
    /\ UNCHANGED <<scanner_running, stop_pc, scan_left, wait_left, cycles, late_cycle,
                   notPollVars>>

\* time.sleep(interval) is over
WakeUp ==
    /\ thread_pc = "sleeping" /\ sleep_left = 0
    /\ thread_pc' = "check"
    /\ UNCHANGED <<scanner_running, stop_pc, scan_left, sleep_left, wait_left, cycles,
                   late_cycle, late_signals, notPollVars>>

\* stop_scanning up to its wait: the flag is cleared under the mutex; quit()
\* ends an event loop, which run does not have
StopScanning ==
    /\ stop_pc = "idle" /\ thread_pc # "not_started"
    /\ scanner_running' = FALSE
    /\ stop_pc' = "waiting"
    /\ wait_left' = WaitSeconds
    /\ UNCHANGED <<thread_pc, scan_left, sleep_left, cycles, late_cycle, late_signals,
                   notPollVars>>

\* wait(2000) returns: the thread has finished or the two seconds are over
WaitReturns ==
    /\ stop_pc = "waiting"
    /\ thread_pc = "finished" \/ wait_left = 0
    /\ stop_pc' = "returned"
    /\ UNCHANGED <<scanner_running, thread_pc, scan_left, sleep_left, wait_left, cycles,
                   late_cycle, late_signals, notPollVars>>

\* one second passes
Tick ==
    /\ thread_pc \in {"scanning", "sleeping"} \/ stop_pc = "waiting"
    /\ thread_pc # "check"
    /\ thread_pc = "scanning" => scan_left > 0
    /\ thread_pc = "sleeping" => sleep_left > 0
    /\ stop_pc = "waiting" => wait_left > 0 /\ thread_pc # "finished"
    /\ scan_left' = IF thread_pc = "scanning" THEN scan_left - 1 ELSE scan_left
    /\ sleep_left' = IF thread_pc = "sleeping" THEN sleep_left - 1 ELSE sleep_left
    /\ wait_left' = IF stop_pc = "waiting" THEN wait_left - 1 ELSE wait_left
    /\ UNCHANGED <<scanner_running, thread_pc, stop_pc, cycles, late_cycle, late_signals,
                   notPollVars>>

NextPoll ==
    \/ StartScanning \/ ReadRunning \/ ScanWifiBack \/ WakeUp
    \/ StopScanning \/ WaitReturns \/ Tick

SpecPoll == InitPoll /\ [][NextPoll]_vars

\* C30: once stop_scanning has returned the poll loop has ended: the thread
\* has left run, starts no further scan cycle and emits no further signal,
\* whether it was scanning or sleeping when stop_scanning was called
C30_StoppedThreadIsSilent ==
    stop_pc = "returned" =>
        /\ thread_pc = "finished"
        /\ ~late_cycle
        /\ late_signals = {}

\* no scan cycle starts after stop_scanning has returned
NoCycleAfterStop == ~late_cycle

\* the thread does leave its loop after stop_scanning, at its next check
LoopEndsAtNextCheck == stop_pc # "idle" /\ thread_pc = "check" => ~scanner_running

=============================================================================
